---- MODULE Spec2Model ----
(***************************************************************************)
(* One registration attempt of DPMAClient.registerTrademark: bootstrap,    *)
(* the eight wizard steps with their nested round trips, the Versand       *)
(* handshake and the archive download.  Every action is one awaited HTTP   *)
(* round trip together with the handling of its response; the remote       *)
(* server's answers are the nondeterministic inputs.                       *)
(***************************************************************************)
EXTENDS Integers, Sequences, FiniteSets, TLC

\* ------------------------------------------------------------------------
\* Bounds of the model (the request's classification list is read lazily).
MaxClasses == 2
MaxTerms == 2
MaxEntries == 2

\* ------------------------------------------------------------------------
\* Values
Absent == "<absent>"

ViewStates == {"v1", "v2"}
WindowIds == {"w:0", "w:1"}
Nonces == {"n1", "n2"}
Jfwids == {"w", "w:1"}

\* JsfTokens
NoTokens == [viewState |-> Absent, clientWindow |-> Absent, primefacesNonce |-> Absent]
TokenNames == {"viewState", "clientWindow", "primefacesNonce"}


\* jfwidFallback.includes(':') ? jfwidFallback : `${jfwidFallback}:0`
FallbackWindow(jfwid) == IF jfwid = "w:1" THEN "w:1" ELSE "w:0"

\* the last strategy of a cascade that matched
LastOf(seq) ==
  LET hits == {i \in 1..Len(seq) : seq[i] # Absent}
  IN IF hits = {} THEN Absent
     ELSE seq[CHOOSE i \in hits : \A j \in hits : j <= i]

\* first strategy of an ordered cascade that matched
FirstOf(seq) ==
  LET hits == {i \in 1..Len(seq) : seq[i] # Absent}
  IN IF hits = {} THEN Absent
     ELSE seq[CHOOSE i \in hits : \A j \in hits : i <= j]

\* The bootstrap page, as what each extraction strategy finds in it.
Pages ==
  [vsNamed : ViewStates \cup {Absent},
   vsIdSuffix : ViewStates \cup {Absent},
   vsScript : ViewStates \cup {Absent},
   cwNamed : WindowIds \cup {Absent},
   cwData : WindowIds \cup {Absent},
   nonceCsp : Nonces \cup {Absent},
   nonceInput : Nonces \cup {Absent},
   nonceScript : Nonces \cup {Absent}]

ExtractViewState(page) == FirstOf(<<page.vsNamed, page.vsIdSuffix, page.vsScript>>)

ExtractClientWindow(page, jfwidFallback, sessionJfwid) ==
  FirstOf(<<page.cwNamed, page.cwData,
            IF jfwidFallback # Absent THEN FallbackWindow(jfwidFallback) ELSE Absent,
            IF sessionJfwid # Absent THEN "w:0" ELSE Absent>>)

ExtractNonce(page) ==
  LET n == FirstOf(<<page.nonceCsp, page.nonceInput, page.nonceScript>>)
  IN IF n = Absent THEN "" ELSE n

\* TokenExtractor.extractTokens: the tokens, or the Error it throws
ExtractTokens(page, jfwidFallback, sessionJfwid) ==
  IF ExtractViewState(page) = Absent
  THEN [ok |-> FALSE, tokens |-> NoTokens,
        message |-> "Failed to extract jakarta.faces.ViewState from HTML"]
  ELSE IF ExtractClientWindow(page, jfwidFallback, sessionJfwid) = Absent
  THEN [ok |-> FALSE, tokens |-> NoTokens,
        message |-> "Failed to extract jakarta.faces.ClientWindow"]
  ELSE [ok |-> TRUE,
        tokens |-> [viewState |-> ExtractViewState(page),
                    clientWindow |-> ExtractClientWindow(page, jfwidFallback, sessionJfwid),
                    primefacesNonce |-> ExtractNonce(page)],
        message |-> ""]

\* A response of the wizard resource, as what the three token regexes capture
\* in its body (Absent: no match; a capture is never empty, the groups are
\* [^<\]]+ and [^'"]+) and whether the body holds an error-page marker.
\* text = FALSE: response.data is empty or not a string.
TextResponses ==
  [text : {TRUE},
   viewState : ViewStates \cup {Absent},
   clientWindow : WindowIds \cup {Absent},
   primefacesNonce : Nonces \cup {Absent},
   err : {FALSE}]

NoTextResponse ==
  [text |-> FALSE, viewState |-> Absent, clientWindow |-> Absent,
   primefacesNonce |-> Absent, err |-> FALSE]

NestedResponses == TextResponses \cup {NoTextResponse}

StepResponses ==
  NestedResponses \cup {[r EXCEPT !.err = TRUE] : r \in TextResponses}

\* a refresh that would empty every token the response lacks (what
\* updateTokensFromResponse must not do)
UpdateAbsentToEmpty(responseData, currentTokens) ==
  [t \in TokenNames |-> IF responseData[t] # Absent THEN responseData[t] ELSE ""]

\* TokenExtractor.updateTokensFromResponse
UpdateTokensFromResponse(responseData, currentTokens) ==
  [t \in TokenNames |->
     IF responseData[t] # Absent THEN responseData[t] ELSE currentTokens[t]]

\* expandClass / searchTerms: session.updateTokens({ viewState }) when matched
UpdateViewStateOnly(responseData, currentTokens) ==
  IF responseData.viewState # Absent
  THEN [currentTokens EXCEPT !.viewState = responseData.viewState]
  ELSE currentTokens

\* response.data.includes('error.xhtml') || response.data.includes('StatusCode: 500')
IsErrorPage(response) == response.text /\ response.err

\* ------------------------------------------------------------------------
\* Errors and the result of registerTrademark
TransportCodes == {"ECONNABORTED", Absent}

Error(code, text, detail) == [code |-> code, text |-> text, detail |-> detail]

TransportError(code) == Error(code, "transport failure", "")

NoResult ==
  [kind |-> "none", errorCode |-> "", errorMessage |-> <<>>, failedAtStep |-> {},
   aktenzeichen |-> "", drn |-> "", transactionId |-> "", submissionTime |-> "",
   receiptDocuments |-> <<>>, receiptFilePath |-> Absent]

\* the catch block of registerTrademark
FailureResult(error, isInitialized, counter) ==
  [kind |-> "failure",
   errorCode |-> IF error.code = Absent THEN "UNKNOWN_ERROR" ELSE error.code,
   errorMessage |-> IF error.text = "" THEN <<"An unknown error occurred">>
                    ELSE <<error.text, error.detail>>,
   failedAtStep |-> IF isInitialized THEN {counter} ELSE {},
   aktenzeichen |-> "", drn |-> "", transactionId |-> "", submissionTime |-> "",
   receiptDocuments |-> <<>>, receiptFilePath |-> Absent]

VARIABLES
  pc,                      \* position in registerTrademark
  jfwid,                   \* initSession's local jfwid
  initialized,             \* SessionManager.state !== null
  tokens,                  \* state.tokens
  stepCounter,             \* state.stepCounter
  encryptedTransactionId,  \* state.encryptedTransactionId / step 8's return value
  versandResponse,         \* the completion response held by registerTrademark
  result,                  \* what registerTrademark returned
  classesDone, termsLeft, headerPending,  \* step 5's loops
  \* history of the attempt
  lastResp,                \* the answer to the most recent wizard round trip
  sent,                    \* the tokens sent in the most recent wizard round trip
  sentUrl,                 \* the URL the most recent wizard round trip was posted to
  lastResponseHtml,        \* state.lastResponseHtml: '' or the stored body, named by
                           \* the round trip that returned it
  failureSeen,             \* a round trip has failed (transport or error page)
  sentAfterFailure,        \* a request was sent after a round trip had failed
  accepted,                \* step submissions accepted so far
  submitted,               \* step submissions sent so far, in order
  versandLog,              \* requests sent to the Versand service, in order
  bootViewState,           \* did the bootstrap page yield a view state
  finalResponse,           \* the answer to the final submission, as step 8 reads it
  download,                \* the archive the download request was answered with
  \* step 5's selection
  leadClass,               \* request.leadClass, {} when not given
  effectiveLeadClass,      \* execute's effectiveLeadClass, {} before it is computed
  selectedCheckboxIds,     \* the identifiers collected for the submission
  requestedClasses,        \* the classes of request.niceClasses read so far
  requested,               \* the terms of those classes
  resolved,                \* the terms whose search answer held a match
  warned,                  \* the terms logged as not found or failed
  announced,               \* the identifiers whose selection-changed round trip completed
  fields,                  \* the selection fields of the step 5 submission
  \* step 4's requests
  markType,                \* request.trademark.type, Absent before step 4 reads it
  step4Log,                \* the requests step 4 has sent, in order
  \* the request's fields
  request,                 \* the request handed to registerTrademark, where followed
  stepFields,              \* the domain fields of the most recent step submission
  \* the registrations the API handles side by side
  at,                      \* where each registration stands
  sessions,                \* the state of each SessionManager
  jars,                    \* the cookie each CookieJar holds
  carriedBy,               \* what each registration's latest step request carried
  \* the bootstrap's requests
  bootLog,                 \* the GETs initSession has sent, in order
  \* the token extractor called on its own
  subject,                 \* what the extractor is called with
  outcomes,                \* what its calls returned, in order
  \* the file part of the upload
  image,                   \* the file name and MIME type handed to uploadImage
  filePart,                \* the file part appended to the multipart form
  \* POST /api/trademark/register
  apiAt,                   \* where the route handler stands
  reqBody,                 \* req.body
  validationResult,        \* what validateTrademarkRequest returned
  clientCreated,           \* new DPMAClient(...) was evaluated
  registration,            \* what client.registerTrademark did with the request
  apiResponse,             \* the status and error code the handler answered with
  \* step 5's round trips
  wanted,                  \* request.niceClasses: each entry's terms and selectClassHeader
  at5,                     \* where Step5NiceClasses.execute stands
  classAt,                 \* the entry of niceClasses the loop is at
  termAt,                  \* the term selectTermsBySearch is at
  checkboxIds,             \* selectedCheckboxIds, in the order pushed
  trips,                   \* the round trips step 5 has made, in order
  searched,                \* the latest search answer and the identifier taken from it
  submission5,             \* the checkbox fields of the step 5 submission
  \* the public step methods called on their own
  directSession,           \* is the client's SessionManager.state set
  directSent,              \* the HTTP requests the client has sent
  directCalls              \* the calls made, each with what it found and left

vars ==
  <<pc, jfwid, initialized, tokens, stepCounter, encryptedTransactionId,
    versandResponse, result, classesDone, termsLeft, headerPending,
    lastResp, sent, sentUrl, lastResponseHtml, failureSeen, sentAfterFailure, accepted, submitted,
    versandLog, bootViewState, finalResponse, download, leadClass, effectiveLeadClass,
    selectedCheckboxIds, requestedClasses, requested, resolved, warned,
    announced, fields, markType, step4Log, request, stepFields,
    at, sessions, jars, carriedBy, bootLog, subject, outcomes, image, filePart,
    apiAt, reqBody, validationResult, clientCreated, registration, apiResponse,
    wanted, at5, classAt, termAt, checkboxIds, trips, searched, submission5,
    directSession, directSent, directCalls>>

\* a URL of the wizard, as its path and its jfwid parameter
NoUrl == [path |-> Absent, jfwid |-> Absent]

\* a form URL that would carry the session's base id in place of the
\* window id
FormUrlOfBaseId(tok) == [path |-> "w7005web.xhtml", jfwid |-> "w"]

\* SessionManager.buildFormUrl
FormUrl(tok) == [path |-> "w7005web.xhtml", jfwid |-> tok.clientWindow]

\* uploadUrl in uploadImage
UploadUrl(tok) == [path |-> "w7005-upload.xhtml", jfwid |-> tok.clientWindow]

NoResp ==
  [kind |-> "none", received |-> FALSE, text |-> FALSE, viewState |-> Absent,
   clientWindow |-> Absent, primefacesNonce |-> Absent, err |-> FALSE]

Received(kind, r) ==
  [kind |-> kind, received |-> TRUE, text |-> r.text, viewState |-> r.viewState,
   clientWindow |-> r.clientWindow, primefacesNonce |-> r.primefacesNonce,
   err |-> r.err]

Lost(kind) == [NoResp EXCEPT !.kind = kind]

NoVersand ==
  [data |-> FALSE, status |-> Absent, userMessage |-> Absent, akz |-> "", drn |-> "",
   transactionId |-> "", creationTime |-> ""]

NoFinal == [status |-> 0, location |-> Absent, body |-> Absent]

NoFields == [sent |-> FALSE, on |-> {}, lead |-> {}]

\* no request followed; no step submission built yet
NoRequest ==
  [applicantType |-> Absent, applicantName |-> Absent, sanctions |-> {},
   senderName |-> Absent]
NoStepFields == [step |-> 0, fields |-> {}]

NoArchive == [empty |-> TRUE, parsable |-> FALSE, entries |-> <<>>, writable |-> FALSE]
NoDownload == [received |-> FALSE, zipData |-> NoArchive]

\* The registrations POST /api/trademark/register is handling.
Attempts == {1, 2}

\* SessionManager.state before initialize
NoSession == [initialized |-> FALSE, tokens |-> NoTokens, stepCounter |-> 0]

NoCarried == [tokens |-> NoTokens, cookie |-> Absent]

Standing(phase, step) == [phase |-> phase, step |-> step]

\* no call of the extractor followed
NoSubject ==
  [call |-> "none", page |-> {}, jfwidFallback |-> Absent, sessionJfwid |-> Absent,
   body |-> NoTextResponse, current |-> NoTokens]

ExtractionIdle == subject = NoSubject /\ outcomes = <<>>

\* no upload followed
NoImage == [fileName |-> <<>>, mimeType |-> Absent]

NoPart == [filename |-> <<>>, contentType |-> Absent]

ImageIdle == image = NoImage /\ filePart = NoPart

\* no request body received
NoBody ==
  [email |-> Absent, type |-> Absent, imageData |-> FALSE, niceClasses |-> <<>>,
   leadClass |-> {}]

NoValidation == [valid |-> FALSE, errors |-> {}]

NoRegistration ==
  [called |-> FALSE, failedAtStep |-> {}, leadClass |-> {}, success |-> FALSE]

NoApiResponse == [status |-> 0, code |-> Absent]

ApiIdle ==
  /\ apiAt = "idle"
  /\ reqBody = NoBody
  /\ validationResult = NoValidation
  /\ clientCreated = FALSE
  /\ registration = NoRegistration
  /\ apiResponse = NoApiResponse

\* no search answered
NoSearch == [asked |-> FALSE, elements |-> <<>>, picked |-> {}]

NoSubmission5 == [sent |-> FALSE, on |-> {}]

RoundTripsIdle ==
  /\ wanted = <<>>
  /\ at5 = "idle"
  /\ classAt = 0
  /\ termAt = 0
  /\ checkboxIds = <<>>
  /\ trips = <<>>
  /\ searched = NoSearch
  /\ submission5 = NoSubmission5

DirectIdle == directSession = FALSE /\ directSent = 0 /\ directCalls = <<>>

ApartIdle == ApiIdle /\ RoundTripsIdle /\ DirectIdle

ServedInit ==
  /\ at = [a \in Attempts |-> Standing("new", 0)]
  /\ sessions = [a \in Attempts |-> NoSession]
  /\ jars = [a \in Attempts |-> Absent]
  /\ carriedBy = [a \in Attempts |-> NoCarried]

AttemptInit ==
  /\ pc = "boot_landing"
  /\ jfwid = Absent
  /\ initialized = FALSE
  /\ tokens = NoTokens
  /\ stepCounter = 0
  /\ encryptedTransactionId = Absent
  /\ versandResponse = NoVersand
  /\ result = NoResult
  /\ classesDone = 0
  /\ termsLeft = 0
  /\ headerPending = FALSE
  /\ lastResp = NoResp
  /\ sent = NoTokens
  /\ sentUrl = NoUrl
  /\ lastResponseHtml = Absent
  /\ failureSeen = FALSE
  /\ sentAfterFailure = FALSE
  /\ accepted = 0
  /\ submitted = <<>>
  /\ versandLog = <<>>
  /\ bootViewState = "pending"
  /\ finalResponse = NoFinal
  /\ download = NoDownload
  /\ leadClass = {}
  /\ effectiveLeadClass = {}
  /\ selectedCheckboxIds = {}
  /\ requestedClasses = {}
  /\ requested = {}
  /\ resolved = {}
  /\ warned = {}
  /\ announced = {}
  /\ fields = NoFields
  /\ markType = Absent
  /\ step4Log = <<>>
  /\ request = NoRequest
  /\ stepFields = NoStepFields

Init ==
  /\ AttemptInit
  /\ ServedInit
  /\ bootLog = <<>>
  /\ ExtractionIdle
  /\ ImageIdle
  /\ ApartIdle

\* ------------------------------------------------------------------------
\* Exceptions
\* an Error that would escape registerTrademark: it ends with no result
Uncaught(error, isInitialized, counter) ==
  /\ pc' = "done"
  /\ result' = result

\* an Error thrown anywhere below registerTrademark's try block lands in its
\* catch block, which returns the failure result
Throw(error, isInitialized, counter) ==
  /\ pc' = "done"
  /\ result' = FailureResult(error, isInitialized, counter)

Goto(next) ==
  /\ pc' = next
  /\ result' = result

\* if (response.data && typeof response.data === 'string')
\*   session.setLastResponse(response.data)
SetLastResponse(kind, r) ==
  lastResponseHtml' = IF r.text THEN kind ELSE lastResponseHtml

\* every request sent is noted against the failures seen before it
SendRequest == sentAfterFailure' = (sentAfterFailure \/ failureSeen)

Locals == <<classesDone, termsLeft, headerPending>>
Session == <<initialized, tokens, stepCounter, encryptedTransactionId, lastResponseHtml>>
StepHistory == <<accepted, submitted>>

Wizard == <<lastResp, sent, sentUrl>>
Selection ==
  <<leadClass, effectiveLeadClass, selectedCheckboxIds, requestedClasses, requested,
    resolved, warned, announced, fields>>
Trademark == <<markType, step4Log>>
Submission == <<request, stepFields>>
Served == <<at, sessions, jars, carriedBy>>
Extraction == <<subject, outcomes>>
ImagePart == <<image, filePart>>
Api == <<apiAt, reqBody, validationResult, clientCreated, registration, apiResponse>>
RoundTrips == <<wanted, at5, classAt, termAt, checkboxIds, trips, searched, submission5>>
Direct == <<directSession, directSent, directCalls>>
Apart == <<Api, RoundTrips, Direct>>
Separate == <<Served, bootLog, Extraction, ImagePart, Apart>>

\* ------------------------------------------------------------------------
\* initSession
GetLanding ==
  /\ SendRequest
  /\ \/ \E code \in TransportCodes :
          /\ failureSeen' = TRUE
          /\ Throw(TransportError(code), initialized, stepCounter)
     \/ /\ failureSeen' = failureSeen
        /\ Goto("boot_start")
  /\ UNCHANGED <<jfwid, Session, versandResponse, Locals, Wizard, StepHistory,
                 versandLog, bootViewState, finalResponse, download>>

InitLanding ==
  /\ pc = "boot_landing"
  /\ GetLanding
  /\ UNCHANGED <<Selection, Trademark, Submission, Separate>>

\* GET w7005-start.xhtml with maxRedirects 0: the jfwid of the redirect's
\* Location, else the one found in the body.

\* the answers to the start GET: the status validateStatus lets through,
\* the jfwid in the Location header and the jfwid in the body
StartAnswers ==
  [status : {200, 302}, inLocation : Jfwids \cup {Absent},
   inHtml : Jfwids \cup {Absent}]

\* a bootstrap that would go on to the form page without a jfwid
StartOutcomeLenient(answer) ==
  IF answer.status = 302 /\ answer.inLocation # Absent
  THEN [jfwid |-> answer.inLocation, next |-> "boot_follow"]
  ELSE [jfwid |-> answer.inHtml, next |-> "boot_form"]

\* the jfwid initSession takes from the answer and what it does next
StartOutcome(answer) ==
  IF answer.status = 302 /\ answer.inLocation # Absent
  THEN [jfwid |-> answer.inLocation, next |-> "boot_follow"]
  ELSE IF answer.inHtml # Absent
  THEN [jfwid |-> answer.inHtml, next |-> "boot_form"]
  ELSE [jfwid |-> Absent, next |-> "throw"]

GetStart(answer) ==
  /\ SendRequest
  /\ failureSeen' = failureSeen
  /\ IF StartOutcome(answer).next = "throw"
     THEN /\ jfwid' = jfwid
          /\ Throw(Error(Absent,
                         "Failed to extract jfwid from session initialization", ""),
                   initialized, stepCounter)
     ELSE /\ jfwid' = StartOutcome(answer).jfwid
          /\ Goto(StartOutcome(answer).next)
  /\ UNCHANGED <<Session, versandResponse, Locals, Wizard, StepHistory,
                 versandLog, bootViewState, finalResponse, download>>

GetStartLost ==
  /\ SendRequest
  /\ \E code \in TransportCodes :
       /\ failureSeen' = TRUE
       /\ jfwid' = jfwid
       /\ Throw(TransportError(code), initialized, stepCounter)
  /\ UNCHANGED <<Session, versandResponse, Locals, Wizard, StepHistory,
                 versandLog, bootViewState, finalResponse, download>>

InitStart ==
  /\ pc = "boot_start"
  /\ \/ GetStartLost
     \/ \E answer \in StartAnswers : GetStart(answer)
  /\ UNCHANGED <<Selection, Trademark, Submission, Separate>>

\* the manual follow of the redirect
FollowRedirect ==
  /\ SendRequest
  /\ \/ \E code \in TransportCodes :
          /\ failureSeen' = TRUE
          /\ Throw(TransportError(code), initialized, stepCounter)
     \/ /\ failureSeen' = failureSeen
        /\ Goto("boot_form")
  /\ UNCHANGED <<jfwid, Session, versandResponse, Locals, Wizard, StepHistory,
                 versandLog, bootViewState, finalResponse, download>>

InitFollow ==
  /\ pc = "boot_follow"
  /\ FollowRedirect
  /\ UNCHANGED <<Selection, Trademark, Submission, Separate>>

\* an initialisation that would start the session with a reference in place
InitializeWithReference(tok) ==
  /\ initialized' = TRUE
  /\ tokens' = tok
  /\ stepCounter' = 0
  /\ encryptedTransactionId' = "tx1"
  /\ lastResponseHtml' = ""

\* SessionManager.initialize
Initialize(tok) ==
  /\ initialized' = TRUE
  /\ tokens' = tok
  /\ stepCounter' = 0
  /\ encryptedTransactionId' = Absent
  /\ lastResponseHtml' = ""

\* GET the form page, extractTokens(formHtml, jfwid), session.initialize;
\* the local jfwid ends with initSession
GetForm ==
  /\ SendRequest
  /\ jfwid' = Absent
  /\ \/ \E code \in TransportCodes :
          /\ failureSeen' = TRUE
          /\ UNCHANGED <<Session, bootViewState>>
          /\ Throw(TransportError(code), initialized, stepCounter)
     \/ \E page \in Pages :
          LET x == ExtractTokens(page, jfwid, Absent)
          IN /\ failureSeen' = failureSeen
             /\ bootViewState' = IF ExtractViewState(page) = Absent
                                 THEN "missing" ELSE "found"
             /\ IF x.ok
                THEN /\ Initialize(x.tokens)
                     /\ Goto("s1")
                ELSE /\ UNCHANGED Session
                     /\ Throw(Error(Absent, x.message, ""), initialized, stepCounter)
  /\ UNCHANGED <<versandResponse, Locals, Wizard, StepHistory, versandLog,
                 finalResponse, download>>

InitForm ==
  /\ pc = "boot_form"
  /\ GetForm
  /\ UNCHANGED <<Selection, Trademark, Submission, Separate>>

\* ------------------------------------------------------------------------
\* BaseStep.submitStep
IncrementStep(counter) == counter + 1

SubmitStep(step, next) ==
  /\ SendRequest
  /\ sent' = tokens
  /\ sentUrl' = FormUrl(tokens)
  /\ submitted' = Append(submitted, step)
  /\ \/ \E code \in TransportCodes :
          /\ lastResp' = Lost("step")
          /\ failureSeen' = TRUE
          /\ UNCHANGED <<tokens, stepCounter, accepted, lastResponseHtml>>
          /\ Throw(TransportError(code), initialized, stepCounter)
     \/ \E r \in StepResponses :
          /\ lastResp' = Received("step", r)
          /\ SetLastResponse("step", r)
          /\ stepCounter' = IncrementStep(stepCounter)
          /\ IF IsErrorPage(r)
             THEN /\ failureSeen' = TRUE
                  /\ UNCHANGED <<tokens, accepted>>
                  /\ Throw(Error(Absent, "Step failed: Server returned error page", ""),
                           initialized, stepCounter')
             ELSE /\ failureSeen' = failureSeen
                  /\ tokens' = IF r.text THEN UpdateTokensFromResponse(r, tokens)
                               ELSE tokens
                  /\ accepted' = accepted + 1
                  /\ Goto(next)
  /\ UNCHANGED <<jfwid, initialized, encryptedTransactionId, versandResponse,
                 Locals, versandLog, bootViewState, finalResponse, download>>

\* BaseStep.triggerDropdownChange and its copies in steps 3 and 4: one round
\* trip whose failure propagates, the tokens refreshed from a textual answer
PostAndRefresh(kind, carried, responses, next) ==
  /\ SendRequest
  /\ sent' = carried
  /\ sentUrl' = IF kind = "upload" THEN UploadUrl(carried) ELSE FormUrl(carried)
  /\ \/ \E code \in TransportCodes :
          /\ lastResp' = Lost(kind)
          /\ failureSeen' = TRUE
          /\ UNCHANGED <<tokens, lastResponseHtml>>
          /\ Throw(TransportError(code), initialized, stepCounter)
     \/ \E r \in responses :
          /\ lastResp' = Received(kind, r)
          /\ SetLastResponse(kind, r)
          /\ failureSeen' = failureSeen
          /\ tokens' = IF r.text THEN UpdateTokensFromResponse(r, tokens)
                       ELSE tokens
          /\ next
  /\ UNCHANGED <<jfwid, initialized, stepCounter, encryptedTransactionId,
                 versandResponse, Locals, StepHistory, versandLog, bootViewState,
                 finalResponse, download>>

TriggerChange(kind, next) ==
  /\ PostAndRefresh(kind, tokens, NestedResponses, Goto(next))
  /\ UNCHANGED <<Selection, Trademark, Submission, Separate>>

\* The requests validateTrademarkRequest accepts, as far as steps 1 and 8
\* read them: the applicant's type and name (firstName + ' ' + lastName, or
\* companyName), the sanctions object ({} when the request has none) and
\* senderName.  Sanctions are required for natural persons only.
Requests ==
  {req \in [applicantType : {"natural", "legal"},
            applicantName : {"Max Mustermann", "Test GmbH"},
            sanctions : {{}} \cup {{[hasRussianNationality |-> n, hasRussianResidence |-> FALSE]} :
                                     n \in BOOLEAN},
            senderName : {"Max Mustermann", "Erika Muster"}] :
     /\ req.applicantName = (IF req.applicantType = "natural" THEN "Max Mustermann"
                             ELSE "Test GmbH")
     /\ req.applicantType = "natural" => req.sanctions # {}}

\* sanctions.hasRussianNationality ? SanctionDeclaration.TRUE : SanctionDeclaration.FALSE
SanctionLine(flag) == IF flag THEN "TRUE" ELSE "FALSE"

\* the field set Step1Applicant.execute builds (the address fields left out)
Step1Fields(req) ==
  LET sanctions == CHOOSE x \in req.sanctions : TRUE
  IN [step |-> 1,
      fields |-> {<<"addressEntityType", req.applicantType>>,
                  <<"lastName", req.applicantName>>,
                  <<"nationalitySanctionLine", SanctionLine(sanctions.hasRussianNationality)>>,
                  <<"residenceSanctionLine", SanctionLine(sanctions.hasRussianResidence)>>}]

\* Step1Applicant.execute: reading sanctions.hasRussianNationality of a
\* request without sanctions raises a TypeError before anything is sent
Step1Execute(req) ==
  IF req.sanctions = {}
  THEN /\ Throw(Error(Absent, "Cannot read properties of undefined", ""),
                initialized, stepCounter)
       /\ UNCHANGED <<jfwid, Session, versandResponse, Locals, Wizard, failureSeen,
                      sentAfterFailure, StepHistory, versandLog, bootViewState,
                      finalResponse, download>>
  ELSE SubmitStep(1, "s2")

Step1Submit ==
  /\ pc = "s1"
  /\ \E req \in Requests : Step1Execute(req)
  /\ UNCHANGED <<Selection, Trademark, Submission, Separate>>

\* a step 2 that would name the applicant as the representative
Step2FieldsOfApplicant(req) ==
  [step |-> 2, fields |-> {<<"representative", req.applicantName>>}]

\* the field set Step2Lawyer.execute hands to submitStep: {}
Step2Fields(req) == [step |-> 2, fields |-> {}]

Step2Submit == pc = "s2" /\ SubmitStep(2, "s3") /\ UNCHANGED <<Selection, Trademark, Submission, Separate>>

\* Step3DeliveryAddress: triggerDeliveryAddressDropdown (copy from applicant)
\* or triggerEntityTypeChange (manual entry), then the submission
Step3Change ==
  /\ pc = "s3"
  /\ \E useDeliveryAddress \in BOOLEAN :
       TriggerChange(IF useDeliveryAddress THEN "entityType" ELSE "addressDropdown",
                     "s3_submit")

Step3Submit == pc = "s3_submit" /\ SubmitStep(3, "s4") /\ UNCHANGED <<Selection, Trademark, Submission, Separate>>

\* Step4Trademark.execute up to the upload: the type switch, the dropdown
\* round trip, the imageData check.  "color" stands for the types whose case
\* throws 'not yet implemented'.
MarkTypes == {"word", "figurative", "combined", "3d", "color"}

Implemented(type) == type \in {"word", "figurative", "combined", "3d"}

\* an upload decided for flat image marks only
UploadForFlatMarks(type) == type \in {"figurative", "combined"}

\* requiresImageUpload after the switch
RequiresImageUpload(type) == type \in {"figurative", "combined", "3d"}

DropdownChange(type, imageData) ==
  IF ~Implemented(type)
  THEN /\ Throw(Error(Absent, "trademark type not yet implemented", ""),
                initialized, stepCounter)
       /\ UNCHANGED <<jfwid, Session, versandResponse, Locals, Wizard, failureSeen,
                      sentAfterFailure, StepHistory, versandLog, bootViewState,
                      finalResponse, download>>
  ELSE PostAndRefresh("dropdown", tokens, NestedResponses,
         IF ~RequiresImageUpload(type) THEN Goto("s4_submit")
         ELSE IF imageData THEN Goto("s4_dialog")
         ELSE Throw(Error(Absent, "Image data is required", ""),
                    initialized, stepCounter))

Step4Dropdown ==
  /\ pc = "s4"
  /\ \E type \in MarkTypes, imageData \in BOOLEAN : DropdownChange(type, imageData)
  /\ UNCHANGED <<Selection, Trademark, Submission, Separate>>

\* Step4Trademark.uploadImage, first round trip: the POST that opens the
\* attachment dialog, with the tokens read on entry
UploadDialog == PostAndRefresh("uploadDialog", tokens, NestedResponses, Goto("s4_upload"))

\* An answer to the multipart POST; err: its body includes 'Fehler' or 'error'.
UploadResponses == NestedResponses \cup {[r EXCEPT !.err = TRUE] : r \in TextResponses}

\* the tokens uploadImage read on entry, kept for the multipart POST
TokensAtEntry(atEntry, inSession) == atEntry

\* currentTokens = this.session.getTokens(), read after the dialog's refresh
CurrentTokens(atEntry, inSession) == inSession

\* an upload that would treat the marker as submitStep treats an error page
UploadFileChecked ==
  PostAndRefresh("upload", CurrentTokens(sent, tokens), UploadResponses,
                 IF lastResp'.err
                 THEN Throw(Error(Absent, "Upload failed", ""), initialized, stepCounter)
                 ELSE Goto("s4_submit"))

\* Step4Trademark.uploadImage, second round trip: the multipart POST; a
\* marker in its answer is logged and nothing else
UploadFile ==
  PostAndRefresh("upload", CurrentTokens(sent, tokens), UploadResponses, Goto("s4_submit"))

Step4UploadDialog == pc = "s4_dialog" /\ UploadDialog /\ UNCHANGED <<Selection, Trademark, Submission, Separate>>

Step4Upload == pc = "s4_upload" /\ UploadFile /\ UNCHANGED <<Selection, Trademark, Submission, Separate>>

Step4Submit ==
  pc = "s4_submit" /\ SubmitStep(4, "s5_loop") /\ UNCHANGED <<Selection, Trademark, Submission, Separate>>

\* ------------------------------------------------------------------------
\* Step5NiceClasses.execute: the loop over request.niceClasses.  The list is
\* read one entry at a time: up to MaxClasses entries, each with up to
\* MaxTerms terms and selectClassHeader true, false or not given.
SelectHeaderChoices == {"true", "false", "undefined"}

\* selectHeader || !hasSpecificTerms, selectHeader = selectClassHeader ?? !hasSpecificTerms
HeaderWanted(nTerms, selectClassHeader) ==
  LET hasSpecificTerms == nTerms > 0
      selectHeader == IF selectClassHeader = "undefined" THEN ~hasSpecificTerms
                      ELSE selectClassHeader = "true"
  IN selectHeader \/ ~hasSpecificTerms

Step5NextClass ==
  /\ pc = "s5_loop"
  /\ \/ /\ classesDone' = 0
        /\ UNCHANGED <<termsLeft, headerPending>>
        /\ Goto("s5_submit")
     \/ /\ classesDone < MaxClasses
        /\ classesDone' = classesDone + 1
        /\ \E nTerms \in 0..MaxTerms, selectClassHeader \in SelectHeaderChoices :
             /\ termsLeft' = nTerms
             /\ headerPending' = (nTerms > 0 /\ HeaderWanted(nTerms, selectClassHeader))
             /\ Goto(IF nTerms > 0 THEN "s5_search" ELSE "s5_expand")
  /\ UNCHANGED <<jfwid, Session, versandResponse, Wizard, failureSeen,
                 sentAfterFailure, StepHistory, versandLog, bootViewState, finalResponse, download, Selection,
                 Trademark, Submission, Separate>>

\* selectTermsBySearch: on to the next term, or out of the term loop
NextTerm ==
  /\ termsLeft' = termsLeft - 1
  /\ headerPending' = (termsLeft > 1 /\ headerPending)
  /\ Goto(IF termsLeft > 1 THEN "s5_search"
          ELSE IF headerPending THEN "s5_expand" ELSE "s5_loop")

\* execute's loop: on to the next class
NextClass ==
  /\ termsLeft' = 0
  /\ headerPending' = FALSE
  /\ Goto("s5_loop")

\* searchTerms, then findCheckboxesByTermNames / findPartialMatchCheckbox;
\* an Error is caught by selectTermsBySearch's per-term try
Step5Search ==
  /\ pc = "s5_search"
  /\ SendRequest
  /\ sent' = tokens
  /\ sentUrl' = FormUrl(tokens)
  /\ lastResponseHtml' = lastResponseHtml
  /\ \/ /\ lastResp' = Lost("search")
        /\ failureSeen' = TRUE
        /\ tokens' = tokens
        /\ NextTerm
     \/ \E r \in NestedResponses, found \in BOOLEAN :
          /\ found => r.text
          /\ lastResp' = Received("search", r)
          /\ failureSeen' = failureSeen
          /\ tokens' = IF r.text THEN UpdateViewStateOnly(r, tokens) ELSE tokens
          /\ IF found
             THEN /\ UNCHANGED <<termsLeft, headerPending>>
                  /\ Goto("s5_term_checkbox")
             ELSE NextTerm
  /\ UNCHANGED <<jfwid, initialized, stepCounter, encryptedTransactionId,
                 versandResponse, classesDone, StepHistory,
                 versandLog, bootViewState, finalResponse, download, Selection,
                 Trademark, Submission, Separate>>

\* triggerCheckboxChange
CheckboxChange(Continue) ==
  /\ SendRequest
  /\ sent' = tokens
  /\ sentUrl' = FormUrl(tokens)
  /\ \/ /\ lastResp' = Lost("checkbox")
        /\ failureSeen' = TRUE
        /\ UNCHANGED <<tokens, lastResponseHtml>>
     \/ \E r \in NestedResponses :
          /\ lastResp' = Received("checkbox", r)
          /\ SetLastResponse("checkbox", r)
          /\ failureSeen' = failureSeen
          /\ tokens' = IF r.text THEN UpdateTokensFromResponse(r, tokens)
                       ELSE tokens
  /\ Continue
  /\ UNCHANGED <<jfwid, initialized, stepCounter, encryptedTransactionId,
                 versandResponse, classesDone, StepHistory, versandLog,
                 bootViewState, finalResponse, download, Selection,
                 Trademark, Submission, Separate>>

\* the selection-changed round trip of a resolved term; its Error is caught
\* by selectTermsBySearch's per-term try
Step5TermCheckbox == pc = "s5_term_checkbox" /\ CheckboxChange(NextTerm)

\* expandClass, then findFirstCheckboxId or findClassLevelCheckbox, which
\* always names an identifier; an Error (also the TypeError of matching a
\* body that is no string) is caught by execute's per-class try
Step5Expand ==
  /\ pc = "s5_expand"
  /\ SendRequest
  /\ sent' = tokens
  /\ sentUrl' = FormUrl(tokens)
  /\ lastResponseHtml' = lastResponseHtml
  /\ \/ /\ lastResp' = Lost("expand")
        /\ failureSeen' = TRUE
        /\ tokens' = tokens
        /\ NextClass
     \/ \E r \in NestedResponses, matchable \in BOOLEAN :
          /\ r.text => matchable
          /\ lastResp' = Received("expand", r)
          /\ failureSeen' = failureSeen
          /\ tokens' = IF r.text THEN UpdateViewStateOnly(r, tokens) ELSE tokens
          /\ IF matchable
             THEN /\ UNCHANGED <<termsLeft, headerPending>>
                  /\ Goto("s5_header_checkbox")
             ELSE NextClass
  /\ UNCHANGED <<jfwid, initialized, stepCounter, encryptedTransactionId,
                 versandResponse, classesDone, StepHistory, versandLog,
                 bootViewState, finalResponse, download, Selection,
                 Trademark, Submission, Separate>>

\* the selection-changed round trip of the header; its Error is caught by
\* execute's per-class try
Step5HeaderCheckbox == pc = "s5_header_checkbox" /\ CheckboxChange(NextClass)

Step5Submit == pc = "s5_submit" /\ SubmitStep(5, "s6") /\ UNCHANGED <<Selection, Trademark, Submission, Separate>>

Step6Submit == pc = "s6" /\ SubmitStep(6, "s7") /\ UNCHANGED <<Selection, Trademark, Submission, Separate>>

Step7Submit == pc = "s7" /\ SubmitStep(7, "s8") /\ UNCHANGED <<Selection, Trademark, Submission, Separate>>

\* ------------------------------------------------------------------------
\* Step8Final.execute.  A transaction reference as it stands in a Location
\* or a body (URI-encoded), and decodeURIComponent / encodeURIComponent on it.
EncodedRefs == {"tx1", "tx%2B", "tx%"}
URIError == "<URIError>"

DecodeURIComponent(s) ==
  CASE s = "tx%2B" -> "tx+"
    [] s = "tx%" -> URIError
    [] OTHER -> s

EncodeURIComponent(s) ==
  CASE s = "tx+" -> "tx%2B"
    [] OTHER -> s

\* The answer to the final submission: its status, the transactionId its
\* Location carries, whether its body is a string, the transactionId the
\* first matching body pattern captures, and whether the body holds an
\* error-page marker.  Its token fields are not read by step 8.
FinalResponses ==
  {r \in [status : {200, 302},
          location : EncodedRefs \cup {Absent},
          text : BOOLEAN,
          body : EncodedRefs \cup {Absent},
          err : BOOLEAN] :
     ~r.text => (r.body = Absent /\ ~r.err)}

\* the transactionId match step 8 decodes, Absent when it throws for lack of one
FinalMatch(r) ==
  IF r.status = 302 THEN r.location
  ELSE IF r.text THEN r.body
  ELSE Absent

\* SessionManager.setTransactionId
SetTransactionId(id) == encryptedTransactionId' = id

FinalSubmission ==
  /\ SendRequest
  /\ sent' = tokens
  /\ sentUrl' = FormUrl(tokens)
  /\ lastResponseHtml' = lastResponseHtml
  /\ submitted' = Append(submitted, 8)
  /\ \/ \E code \in TransportCodes :
          /\ lastResp' = Lost("step")
          /\ failureSeen' = TRUE
          /\ UNCHANGED <<encryptedTransactionId, accepted, finalResponse, download>>
          /\ Throw(TransportError(code), initialized, stepCounter)
     \/ \E r \in FinalResponses :
          /\ lastResp' = [NoResp EXCEPT !.kind = "step", !.received = TRUE,
                                        !.text = r.text, !.err = r.err]
          /\ finalResponse' = [status |-> r.status, location |-> r.location,
                               body |-> r.body]
          /\ IF FinalMatch(r) = Absent
             THEN /\ failureSeen' = TRUE
                  /\ UNCHANGED <<encryptedTransactionId, accepted>>
                  /\ Throw(Error(Absent,
                                 IF r.status = 302
                                 THEN "302 redirect received but no transactionId in location header"
                                 ELSE "Failed to get transaction ID from final submission",
                                 ""),
                           initialized, stepCounter)
             ELSE IF DecodeURIComponent(FinalMatch(r)) = URIError
             THEN /\ failureSeen' = TRUE
                  /\ UNCHANGED <<encryptedTransactionId, accepted>>
                  /\ Throw(Error(Absent, "URI malformed", ""), initialized, stepCounter)
             ELSE /\ failureSeen' = failureSeen
                  /\ SetTransactionId(DecodeURIComponent(FinalMatch(r)))
                  /\ accepted' = accepted + 1
                  /\ Goto("versand_landing")
  /\ UNCHANGED <<jfwid, initialized, tokens, stepCounter, versandResponse, Locals,
                 versandLog, bootViewState, download>>

\* senderName as Step8Final.execute computes it: from the applicant
SenderName(req) == req.applicantName

\* the fields Step8Final.execute builds from the request
Step8Fields(req) ==
  [step |-> 8,
   fields |-> {<<"chBoxConfirmText_input", "on">>,
               <<"applicantNameTextField:valueHolder", SenderName(req)>>}]

Step8Submit ==
  pc = "s8" /\ FinalSubmission /\ UNCHANGED <<Selection, Trademark, Submission, Separate>>

\* ------------------------------------------------------------------------
\* VersandService.complete
LandingUrl(id) == [request |-> "landing", transactionId |-> EncodeURIComponent(id)]

\* a completion URL that would carry the reference as stored, not encoded
SubmitUrlUnencoded(id) == [request |-> "complete", transactionId |-> id]

SubmitUrl(id) == [request |-> "complete", transactionId |-> EncodeURIComponent(id)]

\* DocumentService.download's URL
DownloadUrl(id) == [request |-> "download", transactionId |-> EncodeURIComponent(id)]

VersandLanding ==
  /\ pc = "versand_landing"
  /\ SendRequest
  /\ versandLog' = Append(versandLog, LandingUrl(encryptedTransactionId))
  /\ \/ \E code \in TransportCodes :
          /\ failureSeen' = TRUE
          /\ Throw(TransportError(code), initialized, stepCounter)
     \/ /\ failureSeen' = failureSeen
        /\ Goto("versand_complete")
  /\ UNCHANGED <<jfwid, Session, versandResponse, Locals, Wizard, StepHistory,
                 bootViewState, finalResponse, download, Selection,
                 Trademark, Submission, Separate>>

\* The completion response's data: nothing, or an object with a status and
\* a validationResult.userMessage, each of which may be missing.
\* akz, drn, transactionId and creationTime of a completion response
Receipts ==
  {[akz |-> "akz1", drn |-> "drn1", transactionId |-> "t1", creationTime |-> "c1"],
   [akz |-> "akz2", drn |-> "drn2", transactionId |-> "t2", creationTime |-> "c2"]}

VersandBodies ==
  {NoVersand} \cup
  {[data |-> TRUE, status |-> status, userMessage |-> userMessage, akz |-> r.akz,
    drn |-> r.drn, transactionId |-> r.transactionId, creationTime |-> r.creationTime] :
     status \in {"VERSAND_SUCCESS", "VERSAND_ERROR", "versand_success", Absent},
     userMessage \in {"Bitte pruefen", "", Absent},
     r \in Receipts}

\* a gate that would let any status through as long as one is given
AnyStatusGiven(status) == status # Absent

\* versandResponse.status !== 'VERSAND_SUCCESS' is what throws
IsVersandSuccess(status) == status = "VERSAND_SUCCESS"

\* `Versand failed: ${versandResponse.validationResult?.userMessage || 'Unknown error'}`
VersandFailed(userMessage) ==
  Error(Absent, "Versand failed: ",
        IF userMessage \in {Absent, ""} THEN "Unknown error" ELSE userMessage)

VersandComplete ==
  /\ pc = "versand_complete"
  /\ SendRequest
  /\ versandLog' = Append(versandLog, SubmitUrl(encryptedTransactionId))
  /\ \/ \E code \in TransportCodes :
          /\ failureSeen' = TRUE
          /\ versandResponse' = versandResponse
          /\ Throw(TransportError(code), initialized, stepCounter)
     \/ \E body \in VersandBodies :
          /\ versandResponse' = body
          /\ IF ~body.data
             THEN /\ failureSeen' = TRUE
                  /\ Throw(Error(Absent, "Cannot read properties of undefined", ""),
                           initialized, stepCounter)
             ELSE IF ~IsVersandSuccess(body.status)
             THEN /\ failureSeen' = TRUE
                  /\ Throw(VersandFailed(body.userMessage), initialized, stepCounter)
             ELSE /\ failureSeen' = failureSeen
                  /\ Goto("download")
  /\ UNCHANGED <<jfwid, Session, Locals, Wizard, StepHistory, bootViewState,
                 finalResponse, download, Selection,
                 Trademark, Submission, Separate>>

\* DocumentService.download.  An archive is what AdmZip makes of the bytes:
\* empty: no bytes; parsable: the constructor and getEntries() succeed;
\* entries: the central directory in order, an entry being a directory or a
\* file, a file's getData() succeeding or throwing; writable: whether the
\* receipts folder can be written.
ArchiveEntries ==
  {[entryName |-> "a.pdf", isDirectory |-> FALSE, readable |-> TRUE],
   [entryName |-> "a.pdf", isDirectory |-> FALSE, readable |-> FALSE],
   [entryName |-> "b.xml", isDirectory |-> FALSE, readable |-> TRUE],
   [entryName |-> "d/", isDirectory |-> TRUE, readable |-> TRUE]}

EntryLists == UNION {[1..n -> ArchiveEntries] : n \in 0..MaxEntries}

Archives ==
  {[empty |-> e, parsable |-> FALSE, entries |-> <<>>, writable |-> w] :
     e \in BOOLEAN, w \in BOOLEAN}
  \cup
  {[empty |-> FALSE, parsable |-> TRUE, entries |-> es, writable |-> w] :
     es \in EntryLists, w \in BOOLEAN}

\* entry.entryName.endsWith('.pdf') ? 'application/pdf' : 'application/octet-stream'
MimeType(entryName) ==
  IF entryName = "a.pdf" THEN "application/pdf" ELSE "application/octet-stream"

\* the for loop over the entries inside the try: a directory is passed over,
\* a file is pushed once its data was read, and the first getData() that
\* throws ends the loop with what was pushed so far
RECURSIVE ReadEntries(_)
ReadEntries(entries) ==
  IF entries = <<>> THEN <<>>
  ELSE LET entry == Head(entries)
       IN IF entry.isDirectory THEN ReadEntries(Tail(entries))
          ELSE IF ~entry.readable THEN <<>>
          ELSE <<[filename |-> entry.entryName, mimeType |-> MimeType(entry.entryName)]>>
               \o ReadEntries(Tail(entries))

\* documents as download returns them
ExtractDocuments(zipData) ==
  IF zipData.parsable THEN ReadEntries(zipData.entries) ELSE <<>>

\* saveZip's return value
ReceiptFilePath(aktenzeichen) == <<aktenzeichen, "_documents.zip">>

\* a success result that would take the transaction id for the drn
SuccessResultMixed(versand, documents, receiptFilePath) ==
  [kind |-> "success", errorCode |-> "", errorMessage |-> <<>>, failedAtStep |-> {},
   aktenzeichen |-> versand.akz, drn |-> versand.transactionId,
   transactionId |-> versand.drn, submissionTime |-> versand.creationTime,
   receiptDocuments |-> documents, receiptFilePath |-> receiptFilePath]

\* the success result of registerTrademark
SuccessResult(versand, documents, receiptFilePath) ==
  [kind |-> "success", errorCode |-> "", errorMessage |-> <<>>, failedAtStep |-> {},
   aktenzeichen |-> versand.akz, drn |-> versand.drn,
   transactionId |-> versand.transactionId, submissionTime |-> versand.creationTime,
   receiptDocuments |-> documents, receiptFilePath |-> receiptFilePath]

\* documents.download, saveZip when the archive has bytes, the success result
DocumentsDownload ==
  /\ pc = "download"
  /\ SendRequest
  /\ versandLog' = Append(versandLog, DownloadUrl(encryptedTransactionId))
  /\ \/ \E code \in TransportCodes :
          /\ failureSeen' = TRUE
          /\ download' = download
          /\ Throw(TransportError(code), initialized, stepCounter)
     \/ \E zipData \in Archives :
          /\ download' = [received |-> TRUE, zipData |-> zipData]
          /\ IF ~zipData.empty /\ ~zipData.writable
             THEN /\ failureSeen' = TRUE
                  /\ Throw(Error("EACCES", "permission denied", ""),
                           initialized, stepCounter)
             ELSE /\ failureSeen' = failureSeen
                  /\ pc' = "done"
                  /\ result' = SuccessResult(versandResponse, ExtractDocuments(zipData),
                                             IF zipData.empty THEN Absent
                                             ELSE ReceiptFilePath(versandResponse.akz))
  /\ UNCHANGED <<jfwid, Session, versandResponse, Locals, Wizard, StepHistory,
                 bootViewState, finalResponse, Selection, Trademark, Submission, Separate>>

\* ------------------------------------------------------------------------
Next ==
  \/ InitLanding
  \/ InitStart
  \/ InitFollow
  \/ InitForm
  \/ Step1Submit
  \/ Step2Submit
  \/ Step3Change
  \/ Step3Submit
  \/ Step4Dropdown
  \/ Step4UploadDialog
  \/ Step4Upload
  \/ Step4Submit
  \/ Step5NextClass
  \/ Step5Search
  \/ Step5TermCheckbox
  \/ Step5Expand
  \/ Step5HeaderCheckbox
  \/ Step5Submit
  \/ Step6Submit
  \/ Step7Submit
  \/ Step8Submit
  \/ VersandLanding
  \/ VersandComplete
  \/ DocumentsDownload

Spec == Init /\ [][Next]_vars

\* ------------------------------------------------------------------------
\* Step5NiceClasses.execute once more, followed for the identifiers it
\* collects and submits.  The loop is the one above (same positions, same
\* NextTerm / NextClass); here each round trip is taken by its outcome for the
\* selection, and the tokens, which the actions above follow, are left alone.
DefaultLeadClass == 9

\* the classNumber of the i-th entry of request.niceClasses (all distinct)
ClassNumber(i) == DefaultLeadClass + i

\* request.leadClass: not given, or one of the requested classes
LeadChoices == {{}} \cup {{ClassNumber(c)} : c \in 1..MaxClasses}

\* leadClass ?? niceClasses[0]?.classNumber ?? 9
EffectiveLeadClass(lead, firstClass) ==
  IF lead # {} THEN lead
  ELSE IF firstClass # {} THEN firstClass
  ELSE {DefaultLeadClass}

\* the checkbox identifier of term t of class c, and of the class's header
TermId(c, t) == <<c, t>>
HeaderId(c) == <<c, 0>>

\* the term selectTermsBySearch is at
CurrentTerm ==
  TermId(classesDone,
         Cardinality({id \in requested : id[1] = classesDone}) - termsLeft + 1)

\* What came of a search: no answer (the POST rejected), an answer without a
\* link for the term, one with a link whose title is or starts with the term,
\* one with only a link whose title contains the term in another case.
SearchOutcomes == {"lost", "nothing", "exact", "partial"}

\* a lookup that would know exact and prefix matches only
FindExactOnly(outcome) == outcome = "exact"

\* checkboxMap.has(term), else findPartialMatchCheckbox(searchResponse, term)
FindCheckbox(outcome) == outcome \in {"exact", "partial"}

\* the selection fields of the step 5 submission: every collected identifier
\* 'on', and leadingClassCombo_input
Step5Fields(ids, lead) == [sent |-> TRUE, on |-> ids, lead |-> lead]

\* what the selection's round trips leave alone in this view
Abstracted ==
  <<jfwid, Session, versandResponse, Wizard, StepHistory, versandLog,
    bootViewState, finalResponse, download, Trademark, Submission, Separate>>

\* an answer that defines no token
TokenFree(resp) ==
  resp.viewState = Absent /\ resp.clientWindow = Absent /\ resp.primefacesNonce = Absent

\* execute's first lines and its for loop
SelectNextClass ==
  /\ pc = "s5_loop"
  /\ \E lead \in (IF effectiveLeadClass = {} THEN LeadChoices ELSE {leadClass}) :
       /\ leadClass' = lead
       /\ \/ /\ lead \subseteq {ClassNumber(c) : c \in requestedClasses}
             /\ effectiveLeadClass' =
                  IF effectiveLeadClass = {} THEN EffectiveLeadClass(lead, {})
                  ELSE effectiveLeadClass
             /\ classesDone' = 0
             /\ UNCHANGED <<termsLeft, headerPending, requestedClasses, requested>>
             /\ Goto("s5_submit")
          \/ /\ classesDone < MaxClasses
             /\ effectiveLeadClass' =
                  IF effectiveLeadClass = {}
                  THEN EffectiveLeadClass(lead, {ClassNumber(1)})
                  ELSE effectiveLeadClass
             /\ classesDone' = classesDone + 1
             /\ requestedClasses' = requestedClasses \cup {classesDone + 1}
             /\ \E nTerms \in 0..MaxTerms, selectClassHeader \in SelectHeaderChoices :
                  /\ termsLeft' = nTerms
                  /\ requested' = requested \cup
                                    {TermId(classesDone + 1, t) : t \in 1..nTerms}
                  /\ headerPending' = (nTerms > 0 /\ HeaderWanted(nTerms, selectClassHeader))
                  /\ Goto(IF nTerms > 0 THEN "s5_search" ELSE "s5_expand")
  /\ UNCHANGED <<Abstracted, failureSeen, sentAfterFailure, selectedCheckboxIds,
                 resolved, warned, announced, fields>>

\* selectTermsBySearch's loop body up to the push of the identifier
SelectSearch ==
  /\ pc = "s5_search"
  /\ SendRequest
  /\ \E outcome \in SearchOutcomes :
       /\ failureSeen' = (failureSeen \/ outcome = "lost")
       /\ resolved' = IF outcome \in {"exact", "partial"}
                      THEN resolved \cup {CurrentTerm} ELSE resolved
       /\ warned' = IF outcome # "exact" THEN warned \cup {CurrentTerm} ELSE warned
       /\ IF outcome # "lost" /\ FindCheckbox(outcome)
          THEN /\ selectedCheckboxIds' = selectedCheckboxIds \cup {CurrentTerm}
               /\ UNCHANGED <<termsLeft, headerPending>>
               /\ Goto("s5_term_checkbox")
          ELSE /\ selectedCheckboxIds' = selectedCheckboxIds
               /\ NextTerm
  /\ UNCHANGED <<Abstracted, classesDone, leadClass, effectiveLeadClass,
                 requestedClasses, requested, announced, fields>>

\* triggerCheckboxChange for an identifier already pushed; its Error is
\* caught by the try around it
SelectAnnounce(id, Continue) ==
  /\ SendRequest
  /\ \E completed \in BOOLEAN :
       /\ failureSeen' = (failureSeen \/ ~completed)
       /\ announced' = IF completed THEN announced \cup {id} ELSE announced
  /\ Continue
  /\ UNCHANGED <<Abstracted, classesDone, leadClass, effectiveLeadClass,
                 selectedCheckboxIds, requestedClasses, requested, resolved,
                 warned, fields>>

SelectTermCheckbox ==
  pc = "s5_term_checkbox" /\ SelectAnnounce(CurrentTerm, NextTerm)

\* What came of an expansion: no answer (the POST rejected), an answer whose
\* body is no string (matching it raises a TypeError), an answer to match.
ExpandOutcomes == {"lost", "unreadable", "answered"}

\* expandClass, then findFirstCheckboxId or findClassLevelCheckbox (one of
\* them always names an identifier) and the push of the identifier
SelectExpand ==
  /\ pc = "s5_expand"
  /\ SendRequest
  /\ \E outcome \in ExpandOutcomes :
       /\ failureSeen' = (failureSeen \/ outcome = "lost")
       /\ IF outcome = "answered"
          THEN /\ selectedCheckboxIds' = selectedCheckboxIds \cup {HeaderId(classesDone)}
               /\ UNCHANGED <<termsLeft, headerPending>>
               /\ Goto("s5_header_checkbox")
          ELSE /\ selectedCheckboxIds' = selectedCheckboxIds
               /\ NextClass
  /\ UNCHANGED <<Abstracted, classesDone, leadClass, effectiveLeadClass,
                 requestedClasses, requested, resolved, warned, announced, fields>>

SelectHeaderCheckbox ==
  pc = "s5_header_checkbox" /\ SelectAnnounce(HeaderId(classesDone), NextClass)

\* the fields built from selectedCheckboxIds and the lead class, and submitStep
SelectSubmit ==
  /\ pc = "s5_submit"
  /\ SubmitStep(5, "s6")
  /\ TokenFree(lastResp')
  /\ fields' = Step5Fields(selectedCheckboxIds, effectiveLeadClass)
  /\ UNCHANGED <<leadClass, effectiveLeadClass, selectedCheckboxIds,
                 requestedClasses, requested, resolved, warned, announced,
                 Trademark, Submission, Separate>>

\* the attempt as step 5 finds it: four steps accepted
SelectionInit ==
  /\ ServedInit
  /\ bootLog = <<>>
  /\ ExtractionIdle
  /\ ImageIdle
  /\ ApartIdle
  /\ pc = "s5_loop"
  /\ jfwid = Absent
  /\ initialized = TRUE
  /\ tokens = [viewState |-> "v1", clientWindow |-> "w:0", primefacesNonce |-> "n1"]
  /\ stepCounter = 4
  /\ encryptedTransactionId = Absent
  /\ versandResponse = NoVersand
  /\ result = NoResult
  /\ classesDone = 0
  /\ termsLeft = 0
  /\ headerPending = FALSE
  /\ lastResp = Received("step", [text |-> TRUE, viewState |-> "v1",
                                  clientWindow |-> Absent,
                                  primefacesNonce |-> Absent, err |-> FALSE])
  /\ sent = tokens
  /\ sentUrl = FormUrl(tokens)
  /\ lastResponseHtml = "step"
  /\ failureSeen = FALSE
  /\ sentAfterFailure = FALSE
  /\ accepted = 4
  /\ submitted = <<1, 2, 3, 4>>
  /\ versandLog = <<>>
  /\ bootViewState = "found"
  /\ finalResponse = NoFinal
  /\ download = NoDownload
  /\ leadClass = {}
  /\ effectiveLeadClass = {}
  /\ selectedCheckboxIds = {}
  /\ requestedClasses = {}
  /\ requested = {}
  /\ resolved = {}
  /\ warned = {}
  /\ announced = {}
  /\ fields = NoFields
  /\ markType = Absent
  /\ step4Log = <<>>
  /\ request = NoRequest
  /\ stepFields = NoStepFields

SelectionNext ==
  \/ SelectNextClass
  \/ SelectSearch
  \/ SelectTermCheckbox
  \/ SelectExpand
  \/ SelectHeaderCheckbox
  \/ SelectSubmit

Step5Spec == SelectionInit /\ [][SelectionNext]_vars

\* ------------------------------------------------------------------------
\* Step4Trademark.execute once more, followed for the requests it sends: the
\* same round trips as above, each one noted in step4Log with its URL, the
\* tokens it carries, and what came back.

\* the request just sent, with the round trip's outcome
Noted(kind, url) ==
  [kind |-> kind, url |-> url, parts |-> sent',
   answered |-> lastResp'.received, marker |-> lastResp'.err]

TrademarkDropdown ==
  /\ pc = "s4"
  /\ \E type \in MarkTypes, imageData \in BOOLEAN :
       /\ DropdownChange(type, imageData)
       /\ markType' = type
       /\ step4Log' = IF Implemented(type)
                      THEN Append(step4Log, Noted("dropdown", FormUrl(tokens)))
                      ELSE step4Log
  /\ UNCHANGED <<Selection, Submission, Separate>>

TrademarkUploadDialog ==
  /\ pc = "s4_dialog"
  /\ UploadDialog
  /\ step4Log' = Append(step4Log, Noted("uploadDialog", FormUrl(tokens)))
  /\ UNCHANGED <<markType, Selection, Submission, Separate>>

TrademarkUpload ==
  /\ pc = "s4_upload"
  /\ UploadFile
  /\ step4Log' = Append(step4Log,
                        Noted("upload", UploadUrl(CurrentTokens(sent, tokens))))
  /\ UNCHANGED <<markType, Selection, Submission, Separate>>

TrademarkSubmit ==
  /\ pc = "s4_submit"
  /\ SubmitStep(4, "s5_loop")
  /\ step4Log' = Append(step4Log, Noted("step", FormUrl(tokens)))
  /\ UNCHANGED <<markType, Selection, Submission, Separate>>

\* the attempt as step 4 finds it: three steps accepted
TrademarkInit ==
  /\ ServedInit
  /\ bootLog = <<>>
  /\ ExtractionIdle
  /\ ImageIdle
  /\ ApartIdle
  /\ pc = "s4"
  /\ jfwid = Absent
  /\ initialized = TRUE
  /\ tokens = [viewState |-> "v1", clientWindow |-> "w:0", primefacesNonce |-> "n1"]
  /\ stepCounter = 3
  /\ encryptedTransactionId = Absent
  /\ versandResponse = NoVersand
  /\ result = NoResult
  /\ classesDone = 0
  /\ termsLeft = 0
  /\ headerPending = FALSE
  /\ lastResp = Received("step", [text |-> TRUE, viewState |-> "v1",
                                  clientWindow |-> Absent,
                                  primefacesNonce |-> Absent, err |-> FALSE])
  /\ sent = tokens
  /\ sentUrl = FormUrl(tokens)
  /\ lastResponseHtml = "step"
  /\ failureSeen = FALSE
  /\ sentAfterFailure = FALSE
  /\ accepted = 3
  /\ submitted = <<1, 2, 3>>
  /\ versandLog = <<>>
  /\ bootViewState = "found"
  /\ finalResponse = NoFinal
  /\ download = NoDownload
  /\ leadClass = {}
  /\ effectiveLeadClass = {}
  /\ selectedCheckboxIds = {}
  /\ requestedClasses = {}
  /\ requested = {}
  /\ resolved = {}
  /\ warned = {}
  /\ announced = {}
  /\ fields = NoFields
  /\ markType = Absent
  /\ step4Log = <<>>
  /\ request = NoRequest
  /\ stepFields = NoStepFields

TrademarkNext ==
  \/ TrademarkDropdown
  \/ TrademarkUploadDialog
  \/ TrademarkUpload
  \/ TrademarkSubmit

Step4Spec == TrademarkInit /\ [][TrademarkNext]_vars

\* ------------------------------------------------------------------------
\* Steps 1, 2 and 8 once more, followed for the fields they submit: the
\* request is fixed from the start and each submission's domain fields are
\* kept in stepFields.  The attempt is taken up where step 1 finds it (the
\* session just initialised) or where step 8 finds it (seven steps accepted).
FieldsStep1 ==
  /\ pc = "s1"
  /\ Step1Execute(request)
  /\ stepFields' = IF request.sanctions = {} THEN stepFields ELSE Step1Fields(request)
  /\ UNCHANGED <<request, Selection, Trademark, Separate>>

FieldsStep2 ==
  /\ pc = "s2"
  /\ SubmitStep(2, "s3")
  /\ stepFields' = Step2Fields(request)
  /\ UNCHANGED <<request, Selection, Trademark, Separate>>

FieldsStep8 ==
  /\ pc = "s8"
  /\ FinalSubmission
  /\ stepFields' = Step8Fields(request)
  /\ UNCHANGED <<request, Selection, Trademark, Separate>>

FieldsInit ==
  /\ ServedInit
  /\ bootLog = <<>>
  /\ ExtractionIdle
  /\ ImageIdle
  /\ ApartIdle
  /\ request \in Requests
  /\ \E done \in {0, 7} :
       /\ pc = (IF done = 0 THEN "s1" ELSE "s8")
       /\ stepCounter = done
       /\ accepted = done
       /\ submitted = [i \in 1..done |-> i]
       /\ lastResp = (IF done = 0 THEN NoResp
                      ELSE Received("step", [text |-> TRUE, viewState |-> "v1",
                                             clientWindow |-> Absent,
                                             primefacesNonce |-> Absent, err |-> FALSE]))
       /\ sent = (IF done = 0 THEN NoTokens
                  ELSE [viewState |-> "v1", clientWindow |-> "w:0",
                        primefacesNonce |-> "n1"])
       /\ sentUrl = (IF done = 0 THEN NoUrl ELSE FormUrl(sent))
       /\ lastResponseHtml = (IF done = 0 THEN "" ELSE "step")
  /\ jfwid = Absent
  /\ initialized = TRUE
  /\ tokens = [viewState |-> "v1", clientWindow |-> "w:0", primefacesNonce |-> "n1"]
  /\ encryptedTransactionId = Absent
  /\ versandResponse = NoVersand
  /\ result = NoResult
  /\ classesDone = 0
  /\ termsLeft = 0
  /\ headerPending = FALSE
  /\ failureSeen = FALSE
  /\ sentAfterFailure = FALSE
  /\ versandLog = <<>>
  /\ bootViewState = "found"
  /\ finalResponse = NoFinal
  /\ download = NoDownload
  /\ leadClass = {}
  /\ effectiveLeadClass = {}
  /\ selectedCheckboxIds = {}
  /\ requestedClasses = {}
  /\ requested = {}
  /\ resolved = {}
  /\ warned = {}
  /\ announced = {}
  /\ fields = NoFields
  /\ markType = Absent
  /\ step4Log = <<>>
  /\ stepFields = NoStepFields

FieldsNext ==
  \/ FieldsStep1
  \/ FieldsStep2
  \/ FieldsStep8

FieldsSpec == FieldsInit /\ [][FieldsNext]_vars

\* ------------------------------------------------------------------------
\* Two registrations handled side by side.  The handler of POST
\* /api/trademark/register makes a DPMAClient of its own for each request;
\* the constructor makes it a SessionManager and a DPMAHttpClient, which
\* makes itself a CookieJar.  A registration is followed through its
\* bootstrap and its eight step submissions; what the wizard sends to a
\* registration (cookie, tokens) is marked with that registration.

\* a session and a cookie jar kept once for the whole module
SessionManagerOfModule(a) == 1

\* this.session = new SessionManager()
SessionManagerOf(a) == a

\* this.cookieJar = new CookieJar()
CookieJarOf(a) == a

\* the cookie the wizard sets for a registration
Cookie(a) == IF a = 1 THEN "JSESSIONID-1" ELSE "JSESSIONID-2"

\* the token values the wizard issues to a registration
MintedTokens(a) ==
  IF a = 1
  THEN [viewState |-> {"1-v1", "1-v2"}, clientWindow |-> {"1-w:0", "1-w:1"},
        primefacesNonce |-> {"1-n1"}]
  ELSE [viewState |-> {"2-v1", "2-v2"}, clientWindow |-> {"2-w:0", "2-w:1"},
        primefacesNonce |-> {"2-n1"}]

\* the answers of the wizard to a step submission of a registration
AnswersTo(a) ==
  [text : {TRUE},
   viewState : MintedTokens(a).viewState \cup {Absent},
   clientWindow : MintedTokens(a).clientWindow \cup {Absent},
   primefacesNonce : MintedTokens(a).primefacesNonce \cup {Absent},
   err : BOOLEAN]
    \cup {NoTextResponse}

Cursor(a) == sessions[SessionManagerOf(a)].stepCounter

\* const client = new DPMAClient({ debug: options.debug })
HandleRegister(a) ==
  /\ at[a].phase = "new"
  /\ at' = [at EXCEPT ![a] = Standing("landing", 0)]
  /\ sessions' = [sessions EXCEPT ![SessionManagerOf(a)] = NoSession]
  /\ jars' = [jars EXCEPT ![CookieJarOf(a)] = Absent]
  /\ UNCHANGED carriedBy

\* initSession up to the start page: the wizard sets its cookie on a
\* request that brings none
ClientLanding(a) ==
  /\ at[a].phase = "landing"
  /\ \/ /\ at' = [at EXCEPT ![a] = Standing("done", 0)]
        /\ UNCHANGED jars
     \/ /\ at' = [at EXCEPT ![a] = Standing("entry", 0)]
        /\ jars' = [jars EXCEPT ![CookieJarOf(a)] =
                      IF @ = Absent THEN Cookie(a) ELSE @]
  /\ UNCHANGED <<sessions, carriedBy>>

\* initSession from the form page on: extractTokens, session.initialize
ClientEntry(a) ==
  /\ at[a].phase = "entry"
  /\ \/ /\ at' = [at EXCEPT ![a] = Standing("done", 0)]
        /\ UNCHANGED sessions
     \/ \E v \in MintedTokens(a).viewState, w \in MintedTokens(a).clientWindow,
           n \in MintedTokens(a).primefacesNonce :
          /\ at' = [at EXCEPT ![a] = Standing("step", 1)]
          /\ sessions' = [sessions EXCEPT ![SessionManagerOf(a)] =
                            [initialized |-> TRUE,
                             tokens |-> [viewState |-> v, clientWindow |-> w,
                                         primefacesNonce |-> n],
                             stepCounter |-> 0]]
  /\ UNCHANGED <<jars, carriedBy>>

\* BaseStep.submitStep, on the session and the cookie jar of the
\* registration's client
ClientSubmitStep(a) ==
  /\ at[a].phase = "step"
  /\ carriedBy' = [carriedBy EXCEPT ![a] =
                   [tokens |-> sessions[SessionManagerOf(a)].tokens,
                    cookie |-> jars[CookieJarOf(a)]]]
  /\ \/ /\ at' = [at EXCEPT ![a] = Standing("done", @.step)]
        /\ UNCHANGED sessions
     \/ \E r \in AnswersTo(a) :
          /\ sessions' = [sessions EXCEPT ![SessionManagerOf(a)] =
                            [@ EXCEPT !.stepCounter = IncrementStep(@),
                                      !.tokens = IF r.text /\ ~IsErrorPage(r)
                                                 THEN UpdateTokensFromResponse(r, @)
                                                 ELSE @]]
          /\ at' = [at EXCEPT ![a] =
                      IF IsErrorPage(r) \/ @.step = 8 THEN Standing("done", @.step)
                      ELSE Standing("step", @.step + 1)]
  /\ UNCHANGED jars

\* the rest of the model stands still
Attempt ==
  <<pc, jfwid, Session, versandResponse, result, Locals, Wizard, failureSeen,
    sentAfterFailure, StepHistory, versandLog, bootViewState, finalResponse,
    download, Selection, Trademark, Submission>>

ServedNext ==
  \E a \in Attempts :
    /\ \/ HandleRegister(a)
       \/ ClientLanding(a)
       \/ ClientEntry(a)
       \/ ClientSubmitStep(a)
    /\ UNCHANGED <<Attempt, bootLog, Extraction, ImagePart, Apart>>

ServedSpec == Init /\ [][ServedNext]_vars

\* ------------------------------------------------------------------------
\* initSession once more, followed for the GETs it sends: each one noted in
\* bootLog with the jfwid of its URL, whether redirects are left to the
\* caller, and for the start page what came back.  Step 1 follows it.

NoAnswer == [status |-> 0, inLocation |-> Absent, inHtml |-> Absent]

BootGet(get, id, redirects, answer) ==
  [get |-> get, jfwid |-> id, redirects |-> redirects, answer |-> answer]

BootLanding ==
  /\ pc = "boot_landing"
  /\ GetLanding
  /\ bootLog' = Append(bootLog, BootGet("landing", Absent, "default", NoAnswer))
  /\ UNCHANGED <<Selection, Trademark, Submission, Served, Extraction, ImagePart, Apart>>

BootStart ==
  /\ pc = "boot_start"
  /\ \/ /\ GetStartLost
        /\ bootLog' = Append(bootLog, BootGet("start", Absent, "manual", NoAnswer))
     \/ \E answer \in StartAnswers :
          /\ GetStart(answer)
          /\ bootLog' = Append(bootLog, BootGet("start", Absent, "manual", answer))
  /\ UNCHANGED <<Selection, Trademark, Submission, Served, Extraction, ImagePart, Apart>>

BootFollow ==
  /\ pc = "boot_follow"
  /\ FollowRedirect
  /\ bootLog' = Append(bootLog, BootGet("follow", jfwid, "default", NoAnswer))
  /\ UNCHANGED <<Selection, Trademark, Submission, Served, Extraction, ImagePart, Apart>>

BootForm ==
  /\ pc = "boot_form"
  /\ GetForm
  /\ bootLog' = Append(bootLog, BootGet("entry", jfwid, "default", NoAnswer))
  /\ UNCHANGED <<Selection, Trademark, Submission, Served, Extraction, ImagePart, Apart>>

BootStep1 ==
  /\ pc = "s1"
  /\ \E req \in Requests : Step1Execute(req)
  /\ UNCHANGED <<Selection, Trademark, Submission, Separate>>

BootNext ==
  \/ BootLanding
  \/ BootStart
  \/ BootFollow
  \/ BootForm
  \/ BootStep1

BootSpec == Init /\ [][BootNext]_vars

\* ------------------------------------------------------------------------
\* The token extractor called on its own: extractTokens on a bootstrap page
\* with the caller's fallback and the session's base id, called twice with
\* the same arguments; updateTokensFromResponse on a response body and the
\* current tokens, called twice with the same arguments and then with the
\* same body and its own result.

BaseIds == {"w"}

SessionTokens ==
  [viewState : ViewStates, clientWindow : WindowIds, primefacesNonce : Nonces \cup {""}]

Subjects ==
  {[NoSubject EXCEPT !.call = "extractTokens", !.page = {pg}, !.jfwidFallback = fb,
                     !.sessionJfwid = base] :
     pg \in Pages, fb \in Jfwids \cup {Absent}, base \in BaseIds \cup {Absent}}
    \cup
  {[NoSubject EXCEPT !.call = "updateTokensFromResponse", !.body = r, !.current = cur] :
     r \in TextResponses, cur \in SessionTokens}

\* the page of an extractTokens call
PageOf(subj) == CHOOSE pg \in subj.page : TRUE

\* extractTokens with a session base id: `${sessionJfwid}:0`
ExtractTokensCall(subj) ==
  ExtractTokens(PageOf(subj), subj.jfwidFallback, subj.sessionJfwid)

\* a refresh whose expressions would keep their position from one call to
\* the next (the g flag): a call after the first finds nothing
UpdateTokensCallSticky(subj, currentTokens) ==
  IF outcomes = <<>> THEN UpdateTokensFromResponse(subj.body, currentTokens)
  ELSE currentTokens

\* tokenExtractor.updateTokensFromResponse(response.data, tokens)
UpdateTokensCall(subj, currentTokens) ==
  UpdateTokensFromResponse(subj.body, currentTokens)

ExtractBootstrap ==
  /\ subject.call = "extractTokens"
  /\ Len(outcomes) < 2
  /\ outcomes' = Append(outcomes, ExtractTokensCall(subject))
  /\ UNCHANGED <<subject, Attempt, Served, bootLog, ImagePart, Apart>>

RefreshTokens ==
  /\ subject.call = "updateTokensFromResponse"
  /\ Len(outcomes) < 2
  /\ outcomes' = Append(outcomes, UpdateTokensCall(subject, subject.current))
  /\ UNCHANGED <<subject, Attempt, Served, bootLog, ImagePart, Apart>>

RefreshFromResult ==
  /\ subject.call = "updateTokensFromResponse"
  /\ Len(outcomes) = 2
  /\ outcomes' = Append(outcomes, UpdateTokensCall(subject, outcomes[2]))
  /\ UNCHANGED <<subject, Attempt, Served, bootLog, ImagePart, Apart>>

ExtractionInit ==
  /\ AttemptInit
  /\ ServedInit
  /\ bootLog = <<>>
  /\ ImageIdle
  /\ ApartIdle
  /\ subject \in Subjects
  /\ outcomes = <<>>

ExtractionNext ==
  \/ ExtractBootstrap
  \/ RefreshTokens
  \/ RefreshFromResult

ExtractionSpec == ExtractionInit /\ [][ExtractionNext]_vars

\* ------------------------------------------------------------------------
\* The file part of uploadImage.  A file name is the sequence of its parts
\* between the dots: <<"logo">> is logo, <<"logo", "png">> is logo.png,
\* <<"logo", "">> is logo. with nothing after the dot.

Extensions == {"jpg", "JPG", "jpeg", "Jpeg", "png", "gif", ""}

ImageFileNames ==
  {<<stem>> : stem \in {"logo", "mark"}}
    \cup {<<stem, ext>> : stem \in {"logo", "mark"}, ext \in Extensions}
    \cup {<<stem, "v2", ext>> : stem \in {"logo", "mark"}, ext \in Extensions}

MimeTypes == {"image/jpeg", "image/png", "image/gif", "application/octet-stream"}

\* String.prototype.toLowerCase, on the extensions
ToLowerCase(ext) ==
  IF ext = "JPG" THEN "jpg" ELSE IF ext = "Jpeg" THEN "jpeg" ELSE ext

\* fileName.toLowerCase().endsWith('.' + ext)
EndsWithDot(fileName, ext) ==
  Len(fileName) >= 2 /\ ToLowerCase(fileName[Len(fileName)]) = ext

\* fileName.replace(/\.[^.]+$/, '.jpg'): the last dot and what follows it,
\* when something follows it
ReplaceExtension(fileName) ==
  IF Len(fileName) >= 2 /\ fileName[Len(fileName)] # ""
  THEN [fileName EXCEPT ![Len(fileName)] = "jpg"]
  ELSE fileName

\* uploadFileName
UploadFileName(fileName) ==
  IF ~EndsWithDot(fileName, "jpg") /\ ~EndsWithDot(fileName, "jpeg")
  THEN ReplaceExtension(fileName)
  ELSE fileName

\* formData.append('mainupload:webUpload:webFileUpload_input', imageData,
\*                 { filename: uploadFileName, contentType: 'image/jpeg' })
AppendFilePart ==
  /\ filePart = NoPart
  /\ filePart' = [filename |-> UploadFileName(image.fileName),
                  contentType |-> "image/jpeg"]
  /\ UNCHANGED <<image, Attempt, Served, bootLog, Extraction, Apart>>

FilePartInit ==
  /\ AttemptInit
  /\ ServedInit
  /\ bootLog = <<>>
  /\ ExtractionIdle
  /\ image \in [fileName : ImageFileNames, mimeType : MimeTypes]
  /\ filePart = NoPart
  /\ ApartIdle

FilePartNext == AppendFilePart

FilePartSpec == FilePartInit /\ [][FilePartNext]_vars

\* ------------------------------------------------------------------------
\* POST /api/trademark/register and validateTrademarkRequest.  The body is
\* followed for the fields the checks below read: the email, the trademark's
\* type and imageData, the classNumbers of niceClasses and leadClass; the
\* applicant, the payment and the sender are taken as valid.  The attempt
\* registerTrademark makes, followed round trip by round trip above, is one
\* step here: how far it got and what it ended with.
BodyEmails == {"a@b.de", "a.b.de"}

\* "logo" is no member of TrademarkType
BodyTypes == MarkTypes \cup {"logo"}

BodyClassNumbers == {9, 35, 46}

BodyNiceClasses ==
  {<<>>} \cup {<<n>> : n \in BodyClassNumbers}
         \cup {<<n, m>> : n \in BodyClassNumbers, m \in BodyClassNumbers}

Bodies ==
  [email : BodyEmails, type : BodyTypes, imageData : BOOLEAN,
   niceClasses : BodyNiceClasses,
   leadClass : {{}} \cup {{n} : n \in BodyClassNumbers}]

\* isValidNiceClass
IsValidNiceClass(n) == n \in 1..45

\* isValidEmail
IsValidEmail(email) == email = "a@b.de"

\* the imageData checks: TrademarkType.FIGURATIVE and TrademarkType.COMBINED
ImageDataErrors(req) ==
  IF req.type \in {"figurative", "combined"} /\ ~req.imageData
  THEN {"trademark.imageData"}
  ELSE {}

\* the checks of niceClasses: a non-empty array, every classNumber valid, no
\* classNumber twice
NiceClassesErrors(req) ==
  IF req.niceClasses = <<>>
  THEN {"niceClasses"}
  ELSE (IF \E i \in DOMAIN req.niceClasses : ~IsValidNiceClass(req.niceClasses[i])
        THEN {"niceClasses[i].classNumber"} ELSE {})
       \cup
       (IF \E i, j \in DOMAIN req.niceClasses :
               i # j /\ req.niceClasses[i] = req.niceClasses[j]
        THEN {"niceClasses"} ELSE {})

\* a leadClass checked for its range only
LeadClassErrorsOfRange(req) ==
  IF \E n \in req.leadClass : ~IsValidNiceClass(n) THEN {"leadClass"} ELSE {}

\* if (req.leadClass !== undefined): a valid Nice class, and the classNumber
\* of one of niceClasses
LeadClassErrors(req) ==
  IF req.leadClass = {} THEN {}
  ELSE IF \E n \in req.leadClass : ~IsValidNiceClass(n) THEN {"leadClass"}
  ELSE IF ~\E i \in DOMAIN req.niceClasses : req.leadClass = {req.niceClasses[i]}
       THEN {"leadClass"}
  ELSE {}

ValidationErrors(req) ==
  (IF ~IsValidEmail(req.email) THEN {"email"} ELSE {})
  \cup (IF req.type \notin MarkTypes THEN {"trademark.type"} ELSE {})
  \cup ImageDataErrors(req)
  \cup NiceClassesErrors(req)
  \cup LeadClassErrors(req)

validateTrademarkRequest(req) ==
  [valid |-> ValidationErrors(req) = {}, errors |-> ValidationErrors(req)]

\* every registration answered as created
RegistrationStatusCreated(success) == 201

\* res.status(201) for result.success, res.status(500) otherwise
RegistrationStatus(success) == IF success THEN 201 ELSE 500

\* Step4Trademark.execute throws for this trademark
Step4Throws(req) ==
  \/ ~Implemented(req.type)
  \/ RequiresImageUpload(req.type) /\ ~req.imageData

\* the handler up to its await: validation, the 400 answer, the client and
\* the call of registerTrademark
ApiRegister ==
  /\ apiAt = "received"
  /\ validationResult' = validateTrademarkRequest(reqBody)
  /\ IF ~validationResult'.valid
     THEN /\ apiResponse' = [status |-> 400, code |-> "VALIDATION_ERROR"]
          /\ apiAt' = "responded"
          /\ UNCHANGED clientCreated
     ELSE /\ clientCreated' = TRUE
          /\ apiAt' = "registering"
          /\ UNCHANGED apiResponse
  /\ UNCHANGED <<reqBody, registration, Attempt, Served, bootLog, Extraction, ImagePart,
                 RoundTrips, Direct>>

\* client.registerTrademark(trademarkRequest): the attempt fails in the
\* bootstrap (step 0) or in one of the steps, or it ends after step 8 with the
\* completion's outcome; step 5 submits the effective lead class
ApiRegistration ==
  /\ apiAt = "registering"
  /\ \E failedAt \in {{}} \cup {{k} : k \in 0..8} :
       /\ Step4Throws(reqBody) => \E k \in failedAt : k <= 4
       /\ registration' =
            [called |-> TRUE,
             failedAtStep |-> failedAt,
             leadClass |->
               IF \E k \in failedAt : k < 5 THEN {}
               ELSE EffectiveLeadClass(reqBody.leadClass,
                      IF reqBody.niceClasses = <<>> THEN {}
                      ELSE {reqBody.niceClasses[1]}),
             success |-> failedAt = {}]
  /\ apiAt' = "returned"
  /\ UNCHANGED <<reqBody, validationResult, clientCreated, apiResponse, Attempt, Served,
                 bootLog, Extraction, ImagePart, RoundTrips, Direct>>

\* the handler after its await: 201 or 500 with the result's error code
ApiRespond ==
  /\ apiAt = "returned"
  /\ apiResponse' = [status |-> RegistrationStatus(registration.success),
                     code |-> IF registration.success THEN Absent ELSE "errorCode"]
  /\ apiAt' = "responded"
  /\ UNCHANGED <<reqBody, validationResult, clientCreated, registration, Attempt, Served,
                 bootLog, Extraction, ImagePart, RoundTrips, Direct>>

ApiInit ==
  /\ AttemptInit
  /\ ServedInit
  /\ bootLog = <<>>
  /\ ExtractionIdle
  /\ ImageIdle
  /\ apiAt = "received"
  /\ reqBody \in Bodies
  /\ validationResult = NoValidation
  /\ clientCreated = FALSE
  /\ registration = NoRegistration
  /\ apiResponse = NoApiResponse
  /\ RoundTripsIdle
  /\ DirectIdle

ApiNext == ApiRegister \/ ApiRegistration \/ ApiRespond

ApiSpec == ApiInit /\ [][ApiNext]_vars

\* ------------------------------------------------------------------------
\* Step5NiceClasses.execute a third time, followed for the round trips it
\* makes and for what it reads in their answers.  A search answer is the
\* sequence of its termViewLink elements in document order, each with its
\* title as it relates to the searched term and with the order of its id and
\* title attributes; the tokens and the lead class are followed above.
TermLists == {<<>>, <<"a">>, <<"a", "b">>}

\* one entry of request.niceClasses; selectClassHeader is {} when not given
NiceClassEntries == [terms : TermLists, selectClassHeader : {{}, {TRUE}, {FALSE}}]

NiceClassLists ==
  {<<nc>> : nc \in NiceClassEntries}
    \cup {<<nc, mc>> : nc \in NiceClassEntries, mc \in NiceClassEntries}

\* a title equal to the term, one that starts with it and goes on, one that
\* holds it in another case, one that does not hold it
Titles == {"exact", "prefix", "within", "other"}

Elements == [title : Titles, attributes : {"id-title", "title-id"}]

SearchResponses ==
  {<<>>} \cup {<<e>> : e \in Elements} \cup {<<e, f>> : e \in Elements, f \in Elements}

\* `${prefix}:selectBox_input` of the i-th element of the answer to the search
\* for term t of class c
LinkBox(c, t, i) == [box |-> "termViewLink", class |-> c, term |-> t, pos |-> i]

\* an identifier findFirstCheckboxId read in the expand answer
ScannedBox(c) == [box |-> "scanned", class |-> c, term |-> 0, pos |-> 0]

\* possibleIds of findClassLevelCheckbox
PossibleIds(c) ==
  <<[box |-> "tmclassNode", class |-> c, term |-> 0, pos |-> 0],
    [box |-> "tmclassEditorTree", class |-> c, term |-> 0, pos |-> 0],
    [box |-> "classSelect", class |-> c, term |-> 0, pos |-> 0]>>

\* title === termName || title.startsWith(termName)
TitleMatches(e) == e.title \in {"exact", "prefix"}

MaxOf(S) == CHOOSE x \in S : \A y \in S : y <= x
MinOf(S) == CHOOSE x \in S : \A y \in S : x <= y

\* findCheckboxesByTermNames(response, [term]): the primary pattern sets the
\* term's entry at every matching element it meets (the break leaves the loop
\* over termNames only), the alternative pattern sets it only if it is unset
findCheckboxesByTermNames(elements) ==
  LET primary == {i \in DOMAIN elements :
                    elements[i].attributes = "id-title" /\ TitleMatches(elements[i])}
      alt == {i \in DOMAIN elements :
                elements[i].attributes = "title-id" /\ TitleMatches(elements[i])}
  IN  IF primary # {} THEN {MaxOf(primary)}
      ELSE IF alt # {} THEN {MinOf(alt)}
      ELSE {}

\* findPartialMatchCheckbox: the first element of the primary pattern whose
\* lower-cased title includes the lower-cased term
findPartialMatchCheckbox(elements) ==
  LET partial == {i \in DOMAIN elements :
                    elements[i].attributes = "id-title" /\ elements[i].title # "other"}
  IN  IF partial # {} THEN {MinOf(partial)} ELSE {}

\* the element selectTermsBySearch takes for the term
PickedElement(elements) ==
  IF findCheckboxesByTermNames(elements) # {}
  THEN findCheckboxesByTermNames(elements)
  ELSE findPartialMatchCheckbox(elements)

\* a lookup that goes on to the second candidate
findClassLevelCheckboxNext(c) == {PossibleIds(c)[2]}

\* return possibleIds[0]
findClassLevelCheckbox(c) == {PossibleIds(c)[1]}

\* niceClass.terms && niceClass.terms.length > 0
HasSpecificTerms(nc) == nc.terms # <<>>

\* niceClass.selectClassHeader ?? !hasSpecificTerms
SelectHeader(nc) ==
  IF nc.selectClassHeader = {} THEN ~HasSpecificTerms(nc) ELSE TRUE \in nc.selectClassHeader

\* a header selected for every class
HeaderSelectionAlways(nc) == TRUE

\* if (selectHeader || !hasSpecificTerms)
HeaderSelection(nc) == SelectHeader(nc) \/ ~HasSpecificTerms(nc)

\* a round trip: the request's kind, class, term and identifier, and for an
\* expansion what came of it
Trip(kind, c, t, id, answer) ==
  [kind |-> kind, class |-> c, term |-> t, id |-> id, answer |-> answer]

At5(position, c, t) == at5' = position /\ classAt' = c /\ termAt' = t

\* the for loop over niceClasses reaching entry c (an entry without terms
\* always has its header selected)
EnterClass(c) ==
  IF c > Len(wanted) THEN At5("submit", c, 0)
  ELSE IF HasSpecificTerms(wanted[c]) THEN At5("search", c, 1)
  ELSE At5("expand", c, 0)

\* selectTermsBySearch's loop going on after a term, and what follows it
AfterTerm ==
  IF termAt < Len(wanted[classAt].terms) THEN At5("search", classAt, termAt + 1)
  ELSE IF HeaderSelection(wanted[classAt]) THEN At5("expand", classAt, 0)
  ELSE EnterClass(classAt + 1)

\* searchTerms, the lookups in its answer and the push of the identifier; a
\* rejected POST is caught by the try around the term
RoundTripSearch ==
  /\ at5 = "search"
  /\ trips' = Append(trips, Trip("search", classAt, termAt, {}, ""))
  /\ \/ /\ searched' = [asked |-> TRUE, elements |-> <<>>, picked |-> {}]
        /\ AfterTerm
        /\ UNCHANGED checkboxIds
     \/ \E elements \in SearchResponses :
          LET picked == {LinkBox(classAt, termAt, i) : i \in PickedElement(elements)}
          IN  /\ searched' = [asked |-> TRUE, elements |-> elements, picked |-> picked]
              /\ IF picked # {}
                 THEN /\ checkboxIds' = checkboxIds \o <<CHOOSE id \in picked : TRUE>>
                      /\ At5("term_change", classAt, termAt)
                 ELSE /\ UNCHANGED checkboxIds
                      /\ AfterTerm
  /\ UNCHANGED <<wanted, submission5, Attempt, Served, bootLog, Extraction, ImagePart, Api, Direct>>

\* triggerCheckboxChange for the term's identifier; its Error is caught by
\* the try around the term
RoundTripTermChange ==
  /\ at5 = "term_change"
  /\ trips' = Append(trips, Trip("change", classAt, termAt, searched.picked, ""))
  /\ AfterTerm
  /\ UNCHANGED <<wanted, checkboxIds, searched, submission5, Attempt, Served, bootLog,
                 Extraction, ImagePart, Api, Direct>>

\* What came of an expansion: no answer (the POST rejected), an answer whose
\* body is no string, a body one of the patterns of findFirstCheckboxId
\* matches, a body none of them matches.
ExpandAnswers == {"lost", "unreadable", "scanned", "unmatched"}

\* the identifier execute takes for the header of class c
HeaderBox(answer, c) ==
  IF answer = "scanned" THEN {ScannedBox(c)}
  ELSE IF answer = "unmatched" THEN findClassLevelCheckbox(c)
  ELSE {}

\* expandClass, findFirstCheckboxId, findClassLevelCheckbox and the push of
\* the identifier; an Error is caught by the try around the class
RoundTripExpand ==
  /\ at5 = "expand"
  /\ \E answer \in ExpandAnswers :
       /\ trips' = Append(trips, Trip("expand", classAt, 0, HeaderBox(answer, classAt),
                                      answer))
       /\ IF HeaderBox(answer, classAt) # {}
          THEN /\ checkboxIds' = checkboxIds \o <<CHOOSE id \in HeaderBox(answer, classAt) : TRUE>>
               /\ At5("header_change", classAt, 0)
          ELSE /\ UNCHANGED checkboxIds
               /\ EnterClass(classAt + 1)
  /\ UNCHANGED <<wanted, searched, submission5, Attempt, Served, bootLog, Extraction,
                 ImagePart, Api, Direct>>

\* triggerCheckboxChange for the header's identifier
RoundTripHeaderChange ==
  /\ at5 = "header_change"
  /\ trips' = Append(trips, Trip("change", classAt, 0, {checkboxIds[Len(checkboxIds)]}, ""))
  /\ EnterClass(classAt + 1)
  /\ UNCHANGED <<wanted, checkboxIds, searched, submission5, Attempt, Served, bootLog,
                 Extraction, ImagePart, Api, Direct>>

\* fields[checkboxId] = 'on' for every collected identifier, and submitStep
RoundTripSubmit ==
  /\ at5 = "submit"
  /\ trips' = Append(trips, Trip("submit", 0, 0, {}, ""))
  /\ submission5' = [sent |-> TRUE, on |-> {checkboxIds[i] : i \in DOMAIN checkboxIds}]
  /\ at5' = "done"
  /\ UNCHANGED <<wanted, classAt, termAt, checkboxIds, searched, Attempt, Served, bootLog,
                 Extraction, ImagePart, Api, Direct>>

RoundTripsInit ==
  /\ AttemptInit
  /\ ServedInit
  /\ bootLog = <<>>
  /\ ExtractionIdle
  /\ ImageIdle
  /\ ApiIdle
  /\ wanted \in NiceClassLists
  /\ classAt = 1
  /\ termAt = (IF HasSpecificTerms(wanted[1]) THEN 1 ELSE 0)
  /\ at5 = (IF HasSpecificTerms(wanted[1]) THEN "search" ELSE "expand")
  /\ checkboxIds = <<>>
  /\ trips = <<>>
  /\ searched = NoSearch
  /\ submission5 = NoSubmission5
  /\ DirectIdle

RoundTripsNext ==
  \/ RoundTripSearch
  \/ RoundTripTermChange
  \/ RoundTripExpand
  \/ RoundTripHeaderChange
  \/ RoundTripSubmit

RoundTripsSpec == RoundTripsInit /\ [][RoundTripsNext]_vars

\* ------------------------------------------------------------------------
\* The public step methods of DPMAClient called on their own, on a client as
\* constructed.  Each method is the sequence of round trips its step makes
\* (for step 5: one term searched and announced, the header expanded and
\* announced); every round trip reads the session's tokens and builds the form
\* URL, both through getState, before it posts.  Answers are taken as clean
\* pages here, a rejected POST apart; what the steps do with them is followed
\* above.
MaxCalls == 3

\* a getState that hands out an empty state
GetStateLenient(hasState) == FALSE

\* getState: throw new Error('Session not initialized') when state is null
GetStateThrows(hasState) == ~hasState

\* a round trip, and whether an Error raised in it is caught inside the step
RoundTrip(kind, caught) == [kind |-> kind, caught |-> caught]

StepMethods ==
  {"submitApplicant", "skipLawyer", "submitDeliveryAddress", "submitTrademark",
   "submitNiceClasses", "submitOptions", "submitPayment", "submitFinal"}

\* the round trips of each step's execute
StepRoundTrips(method) ==
  CASE method = "submitDeliveryAddress" ->
         <<RoundTrip("change", FALSE), RoundTrip("submit", FALSE)>>
    [] method = "submitTrademark" ->
         <<RoundTrip("change", FALSE), RoundTrip("submit", FALSE)>>
    [] method = "submitNiceClasses" ->
         <<RoundTrip("search", TRUE), RoundTrip("change", TRUE),
           RoundTrip("expand", TRUE), RoundTrip("change", TRUE),
           RoundTrip("submit", FALSE)>>
    [] method = "submitFinal" -> <<RoundTrip("final", FALSE)>>
    [] OTHER -> <<RoundTrip("submit", FALSE)>>

\* the round trips from the i-th on: getTokens and buildFormUrl, then the
\* POST, which is rejected for the round trip numbered lostAt
RECURSIVE Execute(_, _, _, _, _)
Execute(roundTrips, i, hasState, n, lostAt) ==
  IF i > Len(roundTrips) THEN [sent |-> n, threw |-> FALSE]
  ELSE IF GetStateThrows(hasState)
  THEN IF roundTrips[i].caught
       THEN Execute(roundTrips, i + 1, hasState, n, lostAt)
       ELSE [sent |-> n, threw |-> TRUE]
  ELSE IF i = lostAt /\ ~roundTrips[i].caught
  THEN [sent |-> n + 1, threw |-> TRUE]
  ELSE Execute(roundTrips, i + 1, hasState, n + 1, lostAt)

Called(method, sentAfter, threw, initializedAfter) ==
  [method |-> method, initialized |-> directSession, sentBefore |-> directSent,
   sentAfter |-> sentAfter, threw |-> threw, initializedAfter |-> initializedAfter]

\* await this.stepN.execute(request)
DirectCall(method) ==
  /\ Len(directCalls) < MaxCalls
  /\ \E lostAt \in 0..Len(StepRoundTrips(method)) :
       LET outcome == Execute(StepRoundTrips(method), 1, directSession, directSent, lostAt)
       IN  /\ directSent' = outcome.sent
           /\ directCalls' = Append(directCalls,
                                    Called(method, outcome.sent, outcome.threw,
                                           directSession))
  /\ UNCHANGED <<directSession, Attempt, Served, bootLog, Extraction, ImagePart, Api,
                 RoundTrips>>

SubmitApplicant == DirectCall("submitApplicant")
SkipLawyer == DirectCall("skipLawyer")
SubmitDeliveryAddress == DirectCall("submitDeliveryAddress")
SubmitTrademark == DirectCall("submitTrademark")
SubmitNiceClasses == DirectCall("submitNiceClasses")
SubmitOptions == DirectCall("submitOptions")
SubmitPayment == DirectCall("submitPayment")
SubmitFinal == DirectCall("submitFinal")

\* initSession: the bootstrap's GETs, and session.initialize when the form
\* page was read; a bootstrap that fails leaves the state as it was
DirectInitSession ==
  /\ Len(directCalls) < MaxCalls
  /\ \E gets \in 1..4, ok \in BOOLEAN :
       /\ ok => gets >= 3
       /\ directSession' = (directSession \/ ok)
       /\ directSent' = directSent + gets
       /\ directCalls' = Append(directCalls,
                                Called("initSession", directSent + gets, ~ok,
                                       directSession \/ ok))
  /\ UNCHANGED <<Attempt, Served, bootLog, Extraction, ImagePart, Api, RoundTrips>>

DirectNext ==
  \/ DirectInitSession
  \/ SubmitApplicant
  \/ SkipLawyer
  \/ SubmitDeliveryAddress
  \/ SubmitTrademark
  \/ SubmitNiceClasses
  \/ SubmitOptions
  \/ SubmitPayment
  \/ SubmitFinal

DirectSpec == Init /\ [][DirectNext]_vars

\* ------------------------------------------------------------------------
\* Properties

\* positions from which another request to the wizard resource follows
WizardPositions ==
  {"s1", "s2", "s3", "s3_submit", "s4", "s4_dialog", "s4_upload", "s4_submit",
   "s5_loop", "s5_search", "s5_term_checkbox", "s5_expand", "s5_header_checkbox",
   "s5_submit", "s6", "s7", "s8"}

\* the value of token t that the last round trip hands to the next request:
\* the one its response carries, else the one its request sent
Carried(t) ==
  IF lastResp.received /\ lastResp[t] # Absent THEN lastResp[t] ELSE sent[t]

\* C1: token monotonicity.  Whenever a wizard round trip has taken place and
\* another wizard request is still to be sent, each of the three session
\* tokens (which that next request will send) equals the value carried by
\* the last response when it defines the token, and the value sent in the
\* last request otherwise.
C1_TokenMonotonicity ==
  (lastResp.kind # "none" /\ pc \in WizardPositions)
    => \A t \in TokenNames : tokens[t] = Carried(t)

\* C2: sequential advancement.  The step cursor always equals the number of
\* step submissions accepted so far: it starts at 0, grows by one per
\* accepted submission, and a failure of step k leaves it at k-1.
C2_SequentialAdvancement ==
  /\ stepCounter = accepted
  /\ (result.kind = "failure" /\ submitted # <<>> /\ accepted < Len(submitted))
       => stepCounter = submitted[Len(submitted)] - 1

\* C3: ordered state machine.  The step submissions sent are 1, 2, ... in
\* order and each once, step k+1 is submitted only after step k was
\* accepted, no request of any kind is sent after a round trip has failed,
\* and the Versand service is contacted only after step 8 returned a
\* transaction reference.
C3_OrderedStateMachine ==
  /\ \A i \in DOMAIN submitted : submitted[i] = i
  /\ Len(submitted) <= accepted + 1
  /\ ~sentAfterFailure
  /\ versandLog # <<>> => (encryptedTransactionId # Absent /\ Len(submitted) = 8)

\* C4: a transport failure of any wizard round trip (step submission or
\* nested round trip) ends the attempt at once with a failure result.
C4_TransportFailureAborts ==
  (lastResp.kind # "none" /\ ~lastResp.received)
    => (pc = "done" /\ result.kind = "failure")

\* C5: when the response to a step submission holds an error-page marker,
\* the attempt has failed: the tokens are those sent in the failing request,
\* nothing further is submitted and the result is a failure.
C5_ErrorPageFailsStep ==
  (lastResp.kind = "step" /\ lastResp.received /\ lastResp.err)
    => (pc = "done" /\ result.kind = "failure" /\ tokens = sent)

\* C6: bootstrap failure is fatal, later absence is not.  A bootstrap page
\* without a view state ends the attempt with the session uninitialised
\* and no wizard request sent.  After bootstrap, a token that the last
\* response does not define keeps the value that was sent, no session token
\* is ever emptied (only the nonce may be empty, and only when it was sent
\* empty), and no failure is ever an extraction error.
ExtractionErrors ==
  {"Failed to extract jakarta.faces.ViewState from HTML",
   "Failed to extract jakarta.faces.ClientWindow"}

C6_BootstrapFatalLaterAbsenceNot ==
  /\ bootViewState = "missing"
       => /\ ~initialized
          /\ pc = "done" /\ result.kind = "failure"
          /\ result.errorMessage[1] \in ExtractionErrors
          /\ submitted = <<>> /\ lastResp.kind = "none"
  /\ initialized
       => /\ \A t \in TokenNames :
               /\ tokens[t] # Absent
               /\ (lastResp.kind # "none" /\ lastResp[t] = Absent) => tokens[t] = sent[t]
               /\ (lastResp.kind # "none" /\ tokens[t] = "") => sent[t] = ""
          /\ tokens.viewState # "" /\ tokens.clientWindow # ""
          /\ result.kind = "failure" => result.errorMessage[1] \notin ExtractionErrors

\* C6's case: a response that lacks the nonce arrived after a nonce had been
\* sent, and the attempt goes on with that nonce
C6_Witness ==
  /\ initialized /\ pc \in WizardPositions
  /\ lastResp.received /\ lastResp.text /\ lastResp.primefacesNonce = Absent
  /\ lastResp.viewState # Absent
  /\ sent.primefacesNonce = "n2" /\ tokens.primefacesNonce = "n2"

\* C7: registerTrademark never throws.  It has ended exactly when it has
\* returned a result, and the result is structured: a success with the
\* business identifiers, or a failure with errorCode and errorMessage.
C7_NeverThrows ==
  /\ pc = "done" <=> result.kind # "none"
  /\ result.kind \in {"none", "success", "failure"}
  /\ result.kind = "success"
       => (result.aktenzeichen = versandResponse.akz /\ result.aktenzeichen # "")
  /\ result.kind = "failure"
       => /\ result.errorCode # ""
          /\ result.errorMessage # <<>>
          /\ result.errorMessage[1] # ""

\* C7's case: the attempt failed in the archive download, after the
\* completion succeeded, and a failure result was returned
C7_Witness ==
  /\ pc = "done" /\ result.kind = "failure"
  /\ Len(versandLog) = 3 /\ versandResponse.status = "VERSAND_SUCCESS"

\* C8: in a failure result failedAtStep is the number of steps accepted
\* before the failure (the 0-based index of the step in progress), for
\* transport failures and error pages alike, and is absent when the session
\* was not initialised.
C8_FailedAtStepInProgress ==
  result.kind = "failure"
    => result.failedAtStep = (IF initialized THEN {accepted} ELSE {})

\* C9: finalization status gate.  Once the completion request was answered
\* with a status other than 'VERSAND_SUCCESS' (or none), the attempt has
\* failed, the message carries the response's userMessage when it has one,
\* and no archive download was requested.
C9_FinalizationStatusGate ==
  (Len(versandLog) >= 2 /\ versandResponse.status # "VERSAND_SUCCESS")
    => /\ pc = "done" /\ result.kind = "failure"
       /\ Len(versandLog) = 2
       /\ versandResponse.userMessage \notin {Absent, ""}
            => result.errorMessage = <<"Versand failed: ", versandResponse.userMessage>>

\* C9's case: a completion response flagged with another status and
\* carrying a user message
C9_Witness ==
  /\ versandResponse.data /\ versandResponse.status = "versand_success"
  /\ versandResponse.userMessage = "Bitte pruefen"
  /\ result.kind = "failure"

\* C10: finalization handshake order.  The requests to the Versand service
\* are a prefix of landing GET, completion POST, archive download, all
\* parameterised by the transaction reference step 8 returned (the same
\* query value in each), and the download is only requested after the
\* completion response carried the success status.
HandshakeOrder == <<"landing", "complete", "download">>

C10_HandshakeOrder ==
  /\ Len(versandLog) <= 3
  /\ \A i \in DOMAIN versandLog :
       /\ versandLog[i].request = HandshakeOrder[i]
       /\ versandLog[i].transactionId = versandLog[1].transactionId
       /\ DecodeURIComponent(versandLog[i].transactionId) = encryptedTransactionId
  /\ versandLog # <<>> => encryptedTransactionId \notin {Absent, URIError}
  /\ Len(versandLog) = 3 => versandResponse.status = "VERSAND_SUCCESS"

\* C10's case: the whole handshake ran for a reference that needs encoding
C10_Witness ==
  /\ Len(versandLog) = 3 /\ encryptedTransactionId = "tx+"
  /\ result.kind = "success"

\* a reference that is there and can be decoded
Decodable(ref) == ref # Absent /\ DecodeURIComponent(ref) # URIError

\* C11: step 8 yields a transaction reference whenever the answer to the
\* final submission carries a (decodable) one, in the Location of a redirect
\* or in its body, and fails only when it is in neither place.
C11_Step8YieldsReference ==
  finalResponse # NoFinal
    => LET present == \/ finalResponse.status = 302 /\ Decodable(finalResponse.location)
                      \/ Decodable(finalResponse.body)
       IN IF present
          THEN encryptedTransactionId # Absent /\ accepted = 8
          ELSE /\ encryptedTransactionId = Absent
               /\ pc = "done" /\ result.kind = "failure"

\* C12: the transaction reference is unset until step 8's response was
\* accepted, is written at most once and only by step 8, and the reference
\* passed to the completion request and to the archive download is the
\* stored one.
C12_ReferenceSetOnce ==
  /\ [](accepted < 8 => encryptedTransactionId = Absent)
  /\ [][encryptedTransactionId' # encryptedTransactionId
          => (pc = "s8" /\ encryptedTransactionId = Absent /\ accepted' = 8)]_vars
  /\ [](\A i \in DOMAIN versandLog :
          DecodeURIComponent(versandLog[i].transactionId) = encryptedTransactionId)

\* C12's case: the reference was read from the body of the final answer and
\* the attempt ran to its end with it
C12_Witness ==
  /\ finalResponse.status = 200 /\ encryptedTransactionId = "tx1"
  /\ Len(versandLog) = 3 /\ result.kind = "success"

\* the positions inside step 5's loops and before its submission
Step5Positions ==
  {"s5_loop", "s5_search", "s5_term_checkbox", "s5_expand", "s5_header_checkbox",
   "s5_submit"}

\* C13: partial-item tolerance.  Nothing that happens to a term ends the
\* attempt inside step 5; once step 5 is over its submission was sent; the
\* term identifiers it carries are exactly those of the terms whose search
\* answer held a match (exact or prefix, or else substring); every other
\* requested term was searched, logged and left out.
C13_PartialItemTolerance ==
  /\ pc \in Step5Positions => result.kind = "none"
  /\ pc \in {"s6", "done"} => fields.sent
  /\ fields.sent
       => /\ {id \in fields.on : id[2] > 0} = resolved
          /\ \A id \in requested \ resolved : id \notin fields.on /\ id \in warned

\* C13's case: three terms requested, the first one not found, the other two
\* resolved and submitted
C13_Witness ==
  /\ pc = "s6" /\ fields.sent
  /\ Cardinality(requested) = 3 /\ Cardinality(resolved) = 2
  /\ TermId(1, 1) \notin resolved /\ TermId(1, 1) \in warned
  /\ resolved \subseteq fields.on

\* C14: every identifier the step 5 submission carries was announced by a
\* selection-changed round trip that completed.
C14_SubmittedWereAnnounced ==
  fields.sent => fields.on \subseteq announced

\* C15: the lead class of the step 5 submission is a class of which the
\* submission carries an identifier, and the first requested class when the
\* request names none (stated for requests that name terms and for attempts
\* in which no round trip failed before the submission).
C15_LeadAmongResolved ==
  (fields.sent /\ requested # {} /\ ~sentAfterFailure)
    => /\ \E id \in fields.on : fields.lead = {ClassNumber(id[1])}
       /\ leadClass = {} => fields.lead = {ClassNumber(1)}

\* the kinds of the requests step 4 has sent, in order
Step4Kinds == [i \in DOMAIN step4Log |-> step4Log[i].kind]

\* the session tokens after an answer was handled that came to a request
\* carrying the session tokens `carried`
RefreshedFrom(resp, carried) ==
  IF resp.text THEN UpdateTokensFromResponse(resp, carried) ELSE carried

\* C16: in step 4 the field submission is sent only after the selector-change
\* round trip was answered, in a request of its own; for figurative, combined
\* and 3D marks the two upload round trips lie between them, both answered;
\* for a word mark there is no upload round trip.
C16_SelectorBeforeFields ==
  /\ \A i \in DOMAIN step4Log : (step4Log[i].kind = "dropdown") = (i = 1)
  /\ \A i \in DOMAIN step4Log :
       step4Log[i].kind = "step"
         => /\ step4Log[1].answered
            /\ IF markType \in {"figurative", "combined", "3d"}
               THEN /\ Step4Kinds = <<"dropdown", "uploadDialog", "upload", "step">>
                    /\ step4Log[2].answered /\ step4Log[3].answered
               ELSE Step4Kinds = <<"dropdown", "step">>
  /\ markType = "word"
       => \A i \in DOMAIN step4Log : step4Log[i].kind \notin {"uploadDialog", "upload"}

\* C16's case: a 3D mark whose field submission was sent after the selector
\* change and the two upload round trips
C16_Witness ==
  /\ markType = "3d"
  /\ Step4Kinds = <<"dropdown", "uploadDialog", "upload", "step">>
  /\ pc = "s5_loop"

\* C17: the upload makes two round trips, the dialog POST and right after
\* its answer the multipart POST, each at most once; the multipart request
\* carries, in its form parts and in its URL, the tokens as refreshed from
\* the dialog's answer; after the upload the session holds the tokens as
\* refreshed from the upload's answer.
C17_UploadSubProtocol ==
  /\ [](\A i \in DOMAIN step4Log :
          /\ step4Log[i].kind = "uploadDialog" => i = 2
          /\ step4Log[i].kind = "upload"
               => i = 3 /\ step4Log[2].kind = "uploadDialog" /\ step4Log[2].answered
          /\ (step4Log[i].kind = "uploadDialog" /\ step4Log[i].answered)
               => \/ i = Len(step4Log) /\ pc = "s4_upload"
                  \/ i < Len(step4Log) /\ step4Log[i + 1].kind = "upload")
  /\ [][pc = "s4_upload"
          => /\ sent' = RefreshedFrom(lastResp, sent)
             /\ step4Log'[Len(step4Log')].parts = RefreshedFrom(lastResp, sent)
             /\ step4Log'[Len(step4Log')].url =
                  [path |-> "w7005-upload.xhtml",
                   jfwid |-> RefreshedFrom(lastResp, sent).clientWindow]]_vars
  /\ []((pc = "s4_submit" /\ lastResp.kind = "upload")
          => tokens = RefreshedFrom(lastResp, sent))

\* C17's case: an upload whose dialog answer changed the tokens and whose own
\* answer changed them again
C17_Witness ==
  /\ pc = "s4_submit"
  /\ Step4Kinds = <<"dropdown", "uploadDialog", "upload">>
  /\ step4Log[3].parts # step4Log[2].parts
  /\ step4Log[3].url.jfwid = "w:1"
  /\ step4Log[3].answered
  /\ tokens # step4Log[3].parts

\* C18: an answered upload whose answer holds the failure marker leaves the
\* attempt running with the tokens refreshed from that answer, the field
\* submission is the next request, and a failure of the attempt then comes
\* from the submission's own round trip.
C18_UploadMarkerNotFatal ==
  \A i \in DOMAIN step4Log :
    (step4Log[i].kind = "upload" /\ step4Log[i].answered /\ step4Log[i].marker)
      => \/ /\ i = Len(step4Log)
            /\ pc = "s4_submit"
            /\ result.kind = "none"
            /\ tokens = UpdateTokensFromResponse(lastResp, step4Log[i].parts)
         \/ /\ Len(step4Log) = i + 1
            /\ step4Log[i + 1].kind = "step"
            /\ result.kind = "failure"
                 => (~step4Log[i + 1].answered \/ step4Log[i + 1].marker)

\* C18's case: the upload's answer held the marker and changed the nonce, and
\* step 4 was accepted all the same
C18_Witness ==
  /\ Len(step4Log) = 4
  /\ step4Log[3].kind = "upload" /\ step4Log[3].marker
  /\ step4Log[4].parts.primefacesNonce # step4Log[3].parts.primefacesNonce
  /\ pc = "s5_loop"
  /\ accepted = 4
  /\ result.kind = "none"

\* the archive cannot be unpacked: its construction fails, or reading one of
\* its files does
CannotUnpack(zipData) ==
  \/ ~zipData.parsable
  \/ \E i \in DOMAIN zipData.entries :
       ~zipData.entries[i].isDirectory /\ ~zipData.entries[i].readable

\* the archive was stored, or there was nothing to store
Stored(zipData) == zipData.empty \/ zipData.writable

\* C19: when the downloaded archive cannot be unpacked (at construction or
\* while reading an entry) and storing its bytes does not fail, the attempt
\* ends with a success result that lists no document.
C19_ArchiveResilience ==
  (download.received /\ CannotUnpack(download.zipData) /\ Stored(download.zipData))
    => /\ pc = "done"
       /\ result.kind = "success"
       /\ result.receiptDocuments = <<>>

\* the names of the files among the entries, in order
RECURSIVE FileNames(_)
FileNames(entries) ==
  IF entries = <<>> THEN <<>>
  ELSE (IF Head(entries).isDirectory THEN <<>> ELSE <<Head(entries).entryName>>)
       \o FileNames(Tail(entries))

\* the entries before the first file that cannot be read
UpToUnreadable(entries) ==
  LET bad == {i \in DOMAIN entries : ~entries[i].isDirectory /\ ~entries[i].readable}
  IN IF bad = {} THEN entries
     ELSE SubSeq(entries, 1, (CHOOSE i \in bad : \A j \in bad : i <= j) - 1)

\* the names a result lists as its documents, in order
ReceiptNames == [i \in DOMAIN result.receiptDocuments |-> result.receiptDocuments[i].filename]

\* what C20 says of the four identifiers of a success result
FieldsOfCompletion ==
  /\ versandResponse.data
  /\ result.aktenzeichen = versandResponse.akz
  /\ result.drn = versandResponse.drn
  /\ result.transactionId = versandResponse.transactionId
  /\ result.submissionTime = versandResponse.creationTime

Sent(step) == \E i \in DOMAIN submitted : submitted[i] = step

\* C21: for a legal-entity request without a sanctions object, step 1 builds
\* and submits the applicant fields, and the attempt fails at step 1 only
\* when that submission is lost or answered by an error page.
C21_LegalWithoutSanctions ==
  (request.applicantType = "legal" /\ request.sanctions = {} /\ accepted < 7
     /\ pc # "s1")
    => /\ Sent(1)
       /\ stepFields.step >= 1
       /\ (result.kind = "failure" /\ stepFields.step = 1)
            => (~lastResp.received \/ IsErrorPage(lastResp))

\* C22: the sender-confirmation field of the step 8 submission carries the
\* request's senderName.
C22_SenderConfirmation ==
  stepFields.step = 8
    => <<"applicantNameTextField:valueHolder", request.senderName>> \in stepFields.fields

\* C27: step 2 hands no domain field to its submission, whatever the
\* request; it sends that one submission and nothing else; an answer moves
\* the step cursor on by one, and an answer that is accepted leaves the
\* session with the tokens refreshed from it and the attempt at step 3.
C27_Step2Envelope ==
  /\ [][pc = "s2"
          => /\ stepFields' = [step |-> 2, fields |-> {}]
             /\ submitted' = Append(submitted, 2)
             /\ lastResp'.received => stepCounter' = stepCounter + 1
             /\ (lastResp'.received /\ ~IsErrorPage(lastResp'))
                  => /\ tokens' = RefreshedFrom(lastResp', tokens)
                     /\ accepted' = accepted + 1
                     /\ pc' = "s3"]_vars
  /\ [](Cardinality({i \in DOMAIN submitted : submitted[i] = 2}) <= 1)

\* C27's case: step 2 accepted for a request of a legal entity, the answer
\* having changed the tokens
C27_Witness ==
  /\ pc = "s3"
  /\ request.applicantType = "legal"
  /\ stepFields = [step |-> 2, fields |-> {}]
  /\ stepCounter = 2
  /\ tokens # sent
  /\ tokens = RefreshedFrom(lastResp, sent)


\* C23: once the session is set up, the body it holds as the last response
\* is the body of the most recent textual answer of the wizard, whichever
\* round trip it answered: when the answer to the latest round trip is
\* textual, the session holds that answer.
C23_LastResponseBody ==
  (initialized /\ lastResp.received /\ lastResp.text)
    => lastResponseHtml = lastResp.kind


\* C24: every POST to the wizard resource or to the upload endpoint goes to
\* a URL whose jfwid is the ClientWindow value sent in that same request,
\* and both are the session's window id at the time the request is built.
C24_WindowIdAddressing ==
  /\ [](sent # NoTokens => sentUrl.jfwid = sent.clientWindow)
  /\ [][(sent' # sent \/ sentUrl' # sentUrl \/ lastResp' # lastResp)
          => /\ sent'.clientWindow = tokens.clientWindow
             /\ sentUrl'.jfwid = tokens.clientWindow]_vars

\* C24's case: the submission of step 5 posted after an answer had changed
\* the window id
C24_Witness ==
  /\ lastResp.kind = "step"
  /\ sentUrl = FormUrl(sent)
  /\ sent.clientWindow = "w:1"
  /\ \E i \in DOMAIN submitted : submitted[i] = 5


\* C25: each registration runs on a client, a session and a cookie jar of
\* its own: every step request of a registration carries the cookie and
\* only tokens the wizard issued to that registration, its step cursor
\* counts its own answered submissions, and a move of one registration
\* leaves the cursor of the other where it was.
C25_RegistrationsApart ==
  /\ [](\A a \in Attempts :
          /\ carriedBy[a] # NoCarried
               => /\ carriedBy[a].cookie = Cookie(a)
                  /\ \A t \in TokenNames : carriedBy[a].tokens[t] \in MintedTokens(a)[t]
          /\ at[a].phase = "step" => Cursor(a) = at[a].step - 1)
  /\ [][\A a, b \in Attempts :
          (a # b /\ at'[a] # at[a] /\ at[b].phase # "new")
            => sessions'[SessionManagerOf(b)] = sessions[SessionManagerOf(b)]]_vars

\* C25's case: both registrations under way at different steps, each having
\* sent a step request with tokens refreshed on the way
C25_Witness ==
  /\ at[1] = Standing("step", 3)
  /\ at[2] = Standing("step", 2)
  /\ carriedBy[1].tokens.clientWindow = "1-w:1"
  /\ carriedBy[2].tokens.clientWindow = "2-w:1"


\* the GETs of the bootstrap, in order
BootGets == [i \in DOMAIN bootLog |-> bootLog[i].get]

IsPrefix(short, long) ==
  Len(short) <= Len(long) /\ short = SubSeq(long, 1, Len(short))

\* C26: the bootstrap sends the landing GET, the start GET with redirects
\* left to it, one follow of the redirect when (and only when) its Location
\* carries a window id, and the GET of the entry page under the window id
\* obtained (the Location's, else the one found in the start page), in this
\* order and each once; the session is set up, with cursor 0 and the tokens
\* of the entry page, only by the handling of the entry page; when the
\* start page yields no window id the attempt has failed with no entry GET
\* and no step request sent.
C26_BootstrapOrder ==
  /\ [](\/ IsPrefix(BootGets, <<"landing", "start", "follow", "entry">>)
        \/ IsPrefix(BootGets, <<"landing", "start", "entry">>))
  /\ [](Len(bootLog) >= 2
         => LET start == bootLog[2].answer
                redirected == start.status = 302 /\ start.inLocation # Absent
            IN /\ bootLog[2].redirects = "manual"
               /\ \A i \in DOMAIN bootLog :
                    /\ bootLog[i].get = "follow"
                         => redirected /\ bootLog[i].jfwid = start.inLocation
                    /\ bootLog[i].get = "entry"
                         => /\ bootLog[i].jfwid # Absent
                            /\ bootLog[i].jfwid = (IF redirected THEN start.inLocation
                                                   ELSE start.inHtml)
                            /\ redirected => bootLog[i - 1].get = "follow"
               /\ (~redirected /\ start.inHtml = Absent)
                    => /\ pc = "done" /\ result.kind = "failure"
                       /\ Len(bootLog) = 2
                       /\ submitted = <<>>)
  /\ [](initialized => (bootLog # <<>> /\ bootLog[Len(bootLog)].get = "entry"))
  /\ [](submitted # <<>> => initialized)
  /\ [][(initialized' /\ ~initialized)
          => /\ pc = "boot_form"
             /\ stepCounter' = 0
             /\ bootViewState' = "found"
             /\ tokens'.viewState # Absent /\ tokens'.clientWindow # Absent]_vars

\* C26's case: the redirect was followed, the entry page under its window
\* id yielded the tokens, and step 1 was sent
C26_Witness ==
  /\ BootGets = <<"landing", "start", "follow", "entry">>
  /\ bootLog[4].jfwid = "w:1"
  /\ initialized
  /\ submitted = <<1>>


C29_ExtractionPriority ==
  (subject.call = "extractTokens" /\ outcomes # <<>>)
    => LET pg == PageOf(subject)
           got == outcomes[1]
           viewState == IF pg.vsNamed # Absent THEN pg.vsNamed
                        ELSE IF pg.vsIdSuffix # Absent THEN pg.vsIdSuffix
                        ELSE pg.vsScript
           clientWindow ==
             IF pg.cwNamed # Absent THEN pg.cwNamed
             ELSE IF pg.cwData # Absent THEN pg.cwData
             ELSE IF subject.jfwidFallback = "w:1" THEN "w:1"
             ELSE IF subject.jfwidFallback = "w" THEN "w:0"
             ELSE IF subject.sessionJfwid = "w" THEN "w:0"
             ELSE Absent
           nonce == IF pg.nonceCsp # Absent THEN pg.nonceCsp
                    ELSE IF pg.nonceInput # Absent THEN pg.nonceInput
                    ELSE IF pg.nonceScript # Absent THEN pg.nonceScript
                    ELSE ""
       IN /\ got.ok <=> (viewState # Absent /\ clientWindow # Absent)
          /\ got.ok => got.tokens = [viewState |-> viewState,
                                     clientWindow |-> clientWindow,
                                     primefacesNonce |-> nonce]

\* C29's case: a page on which two strategies match for the view state and
\* for the nonce, none for the window id, extracted with a fallback that
\* has no counter
C29_Witness ==
  /\ subject.call = "extractTokens" /\ outcomes # <<>>
  /\ PageOf(subject).vsNamed = Absent
  /\ PageOf(subject).vsIdSuffix = "v1" /\ PageOf(subject).vsScript = "v2"
  /\ PageOf(subject).cwNamed = Absent /\ PageOf(subject).cwData = Absent
  /\ subject.jfwidFallback = "w" /\ subject.sessionJfwid = "w"
  /\ PageOf(subject).nonceCsp = "n2" /\ PageOf(subject).nonceInput = "n1"
  /\ outcomes[1].tokens = [viewState |-> "v1", clientWindow |-> "w:0",
                           primefacesNonce |-> "n2"]

\* C30: whatever file name and MIME type the caller supplies, the file
\* part of the upload has a name ending in .jpg or .jpeg (in either case)
\* and the content type image/jpeg.
C30_FilePartIsJpeg ==
  filePart # NoPart
    => /\ EndsWithDot(filePart.filename, "jpg") \/ EndsWithDot(filePart.filename, "jpeg")
       /\ filePart.contentType = "image/jpeg"

\* C31: the register route answers 400 with code VALIDATION_ERROR, with no
\* client created and registerTrademark never called, when the validation
\* result is not valid; otherwise it answers 201 for a success result and 500
\* for a failure result.
C31_RegisterStatus ==
  /\ apiAt \in {"registering", "returned"} => validationResult.valid
  /\ apiAt = "responded" =>
       IF ~validationResult.valid
       THEN /\ apiResponse = [status |-> 400, code |-> "VALIDATION_ERROR"]
            /\ ~clientCreated
            /\ ~registration.called
       ELSE /\ registration.called
            /\ registration.success => apiResponse.status = 201
            /\ ~registration.success => apiResponse.status = 500

\* a request with a malformed email was answered 400 and no client was created
C31_Witness ==
  /\ apiAt = "responded"
  /\ apiResponse.status = 400
  /\ reqBody.email = "a.b.de"
  /\ ~clientCreated

\* C32: a request whose trademark type is figurative, combined or 3d and that
\* carries no imageData gets an error on trademark.imageData from the
\* validation and is never handed to registerTrademark.
C32_ImageDataRequired ==
  (apiAt # "received" /\ RequiresImageUpload(reqBody.type) /\ ~reqBody.imageData) =>
    /\ "trademark.imageData" \in validationResult.errors
    /\ ~registration.called

\* C33: the validation leaves leadClass without an error only when it is not
\* given or equals the classNumber of one of niceClasses; the lead class step
\* 5 submits for a validated request is one of the requested class numbers,
\* the first one when leadClass is not given.
C33_LeadClassRequested ==
  /\ (apiAt # "received" /\ reqBody.leadClass # {}
        /\ "leadClass" \notin validationResult.errors) =>
       \E i \in DOMAIN reqBody.niceClasses : reqBody.leadClass = {reqBody.niceClasses[i]}
  /\ (registration.called /\ ~\E k \in registration.failedAtStep : k < 5) =>
       /\ \E i \in DOMAIN reqBody.niceClasses :
            registration.leadClass = {reqBody.niceClasses[i]}
       /\ reqBody.leadClass = {} => registration.leadClass = {reqBody.niceClasses[1]}

\* a registration that ran to its end submitted the second of two requested
\* classes, given as leadClass, as the lead class
C33_Witness ==
  /\ registration.called
  /\ Len(reqBody.niceClasses) = 2
  /\ reqBody.leadClass = {reqBody.niceClasses[2]}
  /\ registration.leadClass = reqBody.leadClass
  /\ registration.failedAtStep = {}

\* C34: once all eight steps were accepted, and so in every registration that
\* succeeded, the step cursor equals 8: step 8, like the steps before it,
\* advanced the cursor once.
C34_CursorAfterAllSteps ==
  (accepted = 8 \/ result.kind = "success") => stepCounter = 8

\* the round trips of one kind made for class c
TripsOf(kind, c) == {i \in DOMAIN trips : trips[i].kind = kind /\ trips[i].class = c}

\* C35: when step 5 has ended, each requested class has had one search round
\* trip per term (so term selection exactly when terms is non-empty) and one
\* expand round trip exactly when selectClassHeader is true or terms is empty,
\* the searches before the expansion; the step 5 submission is sent once, as
\* the last round trip, and never before all classes were processed.
C35_RoundTripsPerClass ==
  /\ (\E i \in DOMAIN trips : trips[i].kind = "submit") => at5 = "done"
  /\ at5 = "done" =>
       /\ {i \in DOMAIN trips : trips[i].kind = "submit"} = {Len(trips)}
       /\ \A c \in DOMAIN wanted :
            /\ \A t \in DOMAIN wanted[c].terms :
                 Cardinality({i \in TripsOf("search", c) : trips[i].term = t}) = 1
            /\ Cardinality(TripsOf("search", c)) = Len(wanted[c].terms)
            /\ Cardinality(TripsOf("expand", c)) =
                 (IF TRUE \in wanted[c].selectClassHeader \/ wanted[c].terms = <<>>
                  THEN 1 ELSE 0)
            /\ \A i \in TripsOf("search", c), j \in TripsOf("expand", c) : i < j

\* step 5 has ended for two classes, the first with two terms and its header
\* selected, the second with terms only
C35_Witness ==
  /\ at5 = "done"
  /\ Len(wanted) = 2
  /\ Len(wanted[1].terms) = 2
  /\ wanted[1].selectClassHeader = {TRUE}
  /\ wanted[2].terms # <<>>
  /\ wanted[2].selectClassHeader = {}
  /\ TripsOf("expand", 2) = {}

C37_ExactTitleWins ==
  /\ (searched.asked /\ \E i \in DOMAIN searched.elements :
                          searched.elements[i].title = "exact") =>
       /\ searched.picked # {}
       /\ \A id \in searched.picked : searched.elements[id.pos].title = "exact"
  /\ \A c \in DOMAIN wanted : \A t \in DOMAIN wanted[c].terms :
       Cardinality({k \in DOMAIN checkboxIds :
                      checkboxIds[k].class = c /\ checkboxIds[k].term = t}) <= 1

\* C38: once the completion was answered with the success status, so that
\* the download was requested, registerTrademark ends with a success result
\* that carries the identifiers of the completion response, whatever becomes
\* of the download, the unpacking and the storing of the archive.
C38_SuccessOnceCompleted ==
  (pc = "done" /\ \E i \in DOMAIN versandLog :
                    versandLog[i] = DownloadUrl(encryptedTransactionId)) =>
    /\ result.kind = "success"
    /\ result.aktenzeichen = versandResponse.akz
    /\ result.drn = versandResponse.drn
    /\ result.transactionId = versandResponse.transactionId

\* C39: a public step method called while the session is not initialised
\* fails, sends no HTTP request and leaves the session not initialised.
C39_StepNeedsSession ==
  \A i \in DOMAIN directCalls :
    (directCalls[i].method \in StepMethods /\ ~directCalls[i].initialized) =>
      /\ directCalls[i].threw
      /\ directCalls[i].sentAfter = directCalls[i].sentBefore
      /\ ~directCalls[i].initializedAfter

\* submitNiceClasses, whose searches and expansion fail inside its own try
\* blocks, was called on a client as constructed, failed and sent nothing
C39_Witness ==
  /\ directCalls # <<>>
  /\ directCalls[1].method = "submitNiceClasses"
  /\ ~directCalls[1].initialized
  /\ directCalls[1].threw
  /\ directCalls[1].sentAfter = 0

============================================================================
